---- MODULE Spec2Model ----
(***************************************************************************)
(* Model of the analytical pipeline of market-observer: keyword            *)
(* classification (analyzer/classifier.py), impact scoring                 *)
(* (analyzer/scorer.py) and the persisted history log (data/history.py).   *)
(*                                                                         *)
(* A text is the sequence of its Unicode code points, so that substring    *)
(* matching and letter case are computed as the code computes them.        *)
(* A dict is a function from its keys to its values.                       *)
(***************************************************************************)
EXTENDS Integers, Sequences, FiniteSets, TLC

\* ------------------------------------------------------------------------
\* Bounds of the model
\* ------------------------------------------------------------------------
\* number of fragments concatenated into an input text
MaxFrags == 2
\* number of items of an input batch
MaxBatch == 2
\* add_daily_record calls per calendar day
MaxCallsPerDay == 2
\* clock changes of a behaviour of SpecHistory
MaxTicks == 3
\* last day of a behaviour of SpecRetention (days are counted from 0)
MaxDay == 33
\* days without a call, or jumps of the clock, in a behaviour of SpecRetention
MaxGaps == 2
\* pipeline runs of each of the two concurrent callers in SpecConcurrent
MaxRuns == 2
\* calls made on the HistoryManager of a behaviour of SpecStore
MaxStoreCalls == 2
\* number of items of a scored batch given to calculate_aggregate_scores
MaxScored == 6
\* records added to an AlertDetector
MaxAlertHistory == 4
\* largest day count given to TriggerDetector.detect
MaxHighZeroDays == 3

\* entries of a log the queries of a HistoryManager are made on
MaxQueryLog == 4
\* items given to one GeminiClassifier object, and to classify_with_llm
MaxLLMItems == 2
\* changes of the calendar day in a behaviour of SpecPipeline
MaxRunTicks == 1
\* pipeline runs begun in a behaviour of SpecPipeline
MaxRunsBegun == 2
\* day changes of a behaviour before which a midnight may fall inside a call
\* on a HistoryManager or inside a pipeline run
MaxMidnights == 1

\* ------------------------------------------------------------------------
\* config.py
\* ------------------------------------------------------------------------
SCORE_MIN == -10
SCORE_MAX == 10

\* ------------------------------------------------------------------------
\* Python primitives
\* ------------------------------------------------------------------------
\* None; no table name and no category name is the empty text
None == << >>

\* dict.get(k, default)
Get(d, k, default) == IF k \in DOMAIN d THEN d[k] ELSE default

\* {**a, **b}: the keys of both, b's value where both have the key
Merge(a, b) ==
  [k \in (DOMAIN a) \cup (DOMAIN b) |-> IF k \in DOMAIN b THEN b[k] ELSE a[k]]

\* Where a key of a dict may hold None in place of a number (the
\* impact_score of an item that was never scored, models/news_dto.py line
\* 53), the key holds no value and is a member of the set under "nulls".
IsNull(d, k) == "nulls" \in DOMAIN d /\ k \in d["nulls"]

\* k is a key of d
HasKey(d, k) == k \in DOMAIN d \/ IsNull(d, k)

\* str.lower() follows the Unicode character database (version 14.0.0 in
\* Python 3.11).  LowerRules lists every code point that has a lower-case
\* form of one code point, four numbers to a rule: first, last, step, delta
\* stand for the code points first, first + step, .., last, each lowered by
\* adding delta.
LowerRules ==
  <<
    65, 90, 1, 32,   192, 214, 1, 32,   216, 222, 1, 32,
    256, 302, 2, 1,   306, 310, 2, 1,   313, 327, 2, 1,
    330, 374, 2, 1,   376, 376, 1, -121,   377, 381, 2, 1,
    385, 385, 1, 210,   386, 388, 2, 1,   390, 390, 1, 206,
    391, 391, 1, 1,   393, 394, 1, 205,   395, 395, 1, 1,
    398, 398, 1, 79,   399, 399, 1, 202,   400, 400, 1, 203,
    401, 401, 1, 1,   403, 403, 1, 205,   404, 404, 1, 207,
    406, 406, 1, 211,   407, 407, 1, 209,   408, 408, 1, 1,
    412, 412, 1, 211,   413, 413, 1, 213,   415, 415, 1, 214,
    416, 420, 2, 1,   422, 422, 1, 218,   423, 423, 1, 1,
    425, 425, 1, 218,   428, 428, 1, 1,   430, 430, 1, 218,
    431, 431, 1, 1,   433, 434, 1, 217,   435, 437, 2, 1,
    439, 439, 1, 219,   440, 440, 1, 1,   444, 444, 1, 1,
    452, 452, 1, 2,   453, 453, 1, 1,   455, 455, 1, 2,
    456, 456, 1, 1,   458, 458, 1, 2,   459, 475, 2, 1,
    478, 494, 2, 1,   497, 497, 1, 2,   498, 500, 2, 1,
    502, 502, 1, -97,   503, 503, 1, -56,   504, 542, 2, 1,
    544, 544, 1, -130,   546, 562, 2, 1,   570, 570, 1, 10795,
    571, 571, 1, 1,   573, 573, 1, -163,   574, 574, 1, 10792,
    577, 577, 1, 1,   579, 579, 1, -195,   580, 580, 1, 69,
    581, 581, 1, 71,   582, 590, 2, 1,   880, 882, 2, 1,
    886, 886, 1, 1,   895, 895, 1, 116,   902, 902, 1, 38,
    904, 906, 1, 37,   908, 908, 1, 64,   910, 911, 1, 63,
    913, 929, 1, 32,   931, 939, 1, 32,   975, 975, 1, 8,
    984, 1006, 2, 1,   1012, 1012, 1, -60,   1015, 1015, 1, 1,
    1017, 1017, 1, -7,   1018, 1018, 1, 1,   1021, 1023, 1, -130,
    1024, 1039, 1, 80,   1040, 1071, 1, 32,   1120, 1152, 2, 1,
    1162, 1214, 2, 1,   1216, 1216, 1, 15,   1217, 1229, 2, 1,
    1232, 1326, 2, 1,   1329, 1366, 1, 48,   4256, 4293, 1, 7264,
    4295, 4295, 1, 7264,   4301, 4301, 1, 7264,   5024, 5103, 1, 38864,
    5104, 5109, 1, 8,   7312, 7354, 1, -3008,   7357, 7359, 1, -3008,
    7680, 7828, 2, 1,   7838, 7838, 1, -7615,   7840, 7934, 2, 1,
    7944, 7951, 1, -8,   7960, 7965, 1, -8,   7976, 7983, 1, -8,
    7992, 7999, 1, -8,   8008, 8013, 1, -8,   8025, 8031, 2, -8,
    8040, 8047, 1, -8,   8072, 8079, 1, -8,   8088, 8095, 1, -8,
    8104, 8111, 1, -8,   8120, 8121, 1, -8,   8122, 8123, 1, -74,
    8124, 8124, 1, -9,   8136, 8139, 1, -86,   8140, 8140, 1, -9,
    8152, 8153, 1, -8,   8154, 8155, 1, -100,   8168, 8169, 1, -8,
    8170, 8171, 1, -112,   8172, 8172, 1, -7,   8184, 8185, 1, -128,
    8186, 8187, 1, -126,   8188, 8188, 1, -9,   8486, 8486, 1, -7517,
    8490, 8490, 1, -8383,   8491, 8491, 1, -8262,   8498, 8498, 1, 28,
    8544, 8559, 1, 16,   8579, 8579, 1, 1,   9398, 9423, 1, 26,
    11264, 11311, 1, 48,   11360, 11360, 1, 1,   11362, 11362, 1, -10743,
    11363, 11363, 1, -3814,   11364, 11364, 1, -10727,   11367, 11371, 2, 1,
    11373, 11373, 1, -10780,   11374, 11374, 1, -10749,   11375, 11375, 1, -10783,
    11376, 11376, 1, -10782,   11378, 11378, 1, 1,   11381, 11381, 1, 1,
    11390, 11391, 1, -10815,   11392, 11490, 2, 1,   11499, 11501, 2, 1,
    11506, 11506, 1, 1,   42560, 42604, 2, 1,   42624, 42650, 2, 1,
    42786, 42798, 2, 1,   42802, 42862, 2, 1,   42873, 42875, 2, 1,
    42877, 42877, 1, -35332,   42878, 42886, 2, 1,   42891, 42891, 1, 1,
    42893, 42893, 1, -42280,   42896, 42898, 2, 1,   42902, 42920, 2, 1,
    42922, 42922, 1, -42308,   42923, 42923, 1, -42319,   42924, 42924, 1, -42315,
    42925, 42925, 1, -42305,   42926, 42926, 1, -42308,   42928, 42928, 1, -42258,
    42929, 42929, 1, -42282,   42930, 42930, 1, -42261,   42931, 42931, 1, 928,
    42932, 42946, 2, 1,   42948, 42948, 1, -48,   42949, 42949, 1, -42307,
    42950, 42950, 1, -35384,   42951, 42953, 2, 1,   42960, 42960, 1, 1,
    42966, 42968, 2, 1,   42997, 42997, 1, 1,   65313, 65338, 1, 32,
    66560, 66599, 1, 40,   66736, 66771, 1, 40,   66928, 66938, 1, 39,
    66940, 66954, 1, 39,   66956, 66962, 1, 39,   66964, 66965, 1, 39,
    68736, 68786, 1, 64,   71840, 71871, 1, 32,   93760, 93791, 1, 32,
    125184, 125217, 1, 34
  >>

\* the code points str.lower() skips when it looks for the letter before
\* and after a capital sigma (Unicode property Case_Ignorable), two numbers
\* to a range: first, last
CaseIgnorableRanges ==
  <<
    39, 39,   46, 46,   58, 58,   94, 94,   96, 96,   168, 168,
    173, 173,   175, 175,   180, 180,   183, 184,   688, 879,   884, 885,
    890, 890,   900, 901,   903, 903,   1155, 1161,   1369, 1369,   1375, 1375,
    1425, 1469,   1471, 1471,   1473, 1474,   1476, 1477,   1479, 1479,   1524, 1524,
    1536, 1541,   1552, 1562,   1564, 1564,   1600, 1600,   1611, 1631,   1648, 1648,
    1750, 1757,   1759, 1768,   1770, 1773,   1807, 1807,   1809, 1809,   1840, 1866,
    1958, 1968,   2027, 2037,   2042, 2042,   2045, 2045,   2070, 2093,   2137, 2139,
    2184, 2184,   2192, 2193,   2200, 2207,   2249, 2306,   2362, 2362,   2364, 2364,
    2369, 2376,   2381, 2381,   2385, 2391,   2402, 2403,   2417, 2417,   2433, 2433,
    2492, 2492,   2497, 2500,   2509, 2509,   2530, 2531,   2558, 2558,   2561, 2562,
    2620, 2620,   2625, 2626,   2631, 2632,   2635, 2637,   2641, 2641,   2672, 2673,
    2677, 2677,   2689, 2690,   2748, 2748,   2753, 2757,   2759, 2760,   2765, 2765,
    2786, 2787,   2810, 2815,   2817, 2817,   2876, 2876,   2879, 2879,   2881, 2884,
    2893, 2893,   2901, 2902,   2914, 2915,   2946, 2946,   3008, 3008,   3021, 3021,
    3072, 3072,   3076, 3076,   3132, 3132,   3134, 3136,   3142, 3144,   3146, 3149,
    3157, 3158,   3170, 3171,   3201, 3201,   3260, 3260,   3263, 3263,   3270, 3270,
    3276, 3277,   3298, 3299,   3328, 3329,   3387, 3388,   3393, 3396,   3405, 3405,
    3426, 3427,   3457, 3457,   3530, 3530,   3538, 3540,   3542, 3542,   3633, 3633,
    3636, 3642,   3654, 3662,   3761, 3761,   3764, 3772,   3782, 3782,   3784, 3789,
    3864, 3865,   3893, 3893,   3895, 3895,   3897, 3897,   3953, 3966,   3968, 3972,
    3974, 3975,   3981, 3991,   3993, 4028,   4038, 4038,   4141, 4144,   4146, 4151,
    4153, 4154,   4157, 4158,   4184, 4185,   4190, 4192,   4209, 4212,   4226, 4226,
    4229, 4230,   4237, 4237,   4253, 4253,   4348, 4348,   4957, 4959,   5906, 5908,
    5938, 5939,   5970, 5971,   6002, 6003,   6068, 6069,   6071, 6077,   6086, 6086,
    6089, 6099,   6103, 6103,   6109, 6109,   6155, 6159,   6211, 6211,   6277, 6278,
    6313, 6313,   6432, 6434,   6439, 6440,   6450, 6450,   6457, 6459,   6679, 6680,
    6683, 6683,   6742, 6742,   6744, 6750,   6752, 6752,   6754, 6754,   6757, 6764,
    6771, 6780,   6783, 6783,   6823, 6823,   6832, 6862,   6912, 6915,   6964, 6964,
    6966, 6970,   6972, 6972,   6978, 6978,   7019, 7027,   7040, 7041,   7074, 7077,
    7080, 7081,   7083, 7085,   7142, 7142,   7144, 7145,   7149, 7149,   7151, 7153,
    7212, 7219,   7222, 7223,   7288, 7293,   7376, 7378,   7380, 7392,   7394, 7400,
    7405, 7405,   7412, 7412,   7416, 7417,   7468, 7530,   7544, 7544,   7579, 7679,
    8125, 8125,   8127, 8129,   8141, 8143,   8157, 8159,   8173, 8175,   8189, 8190,
    8203, 8207,   8216, 8217,   8228, 8228,   8231, 8231,   8234, 8238,   8288, 8292,
    8294, 8303,   8305, 8305,   8319, 8319,   8336, 8348,   8400, 8432,   11388, 11389,
    11503, 11505,   11631, 11631,   11647, 11647,   11744, 11775,   11823, 11823,   12293, 12293,
    12330, 12333,   12337, 12341,   12347, 12347,   12441, 12446,   12540, 12542,   40981, 40981,
    42232, 42237,   42508, 42508,   42607, 42610,   42612, 42621,   42623, 42623,   42652, 42655,
    42736, 42737,   42752, 42785,   42864, 42864,   42888, 42890,   42994, 42996,   43000, 43001,
    43010, 43010,   43014, 43014,   43019, 43019,   43045, 43046,   43052, 43052,   43204, 43205,
    43232, 43249,   43263, 43263,   43302, 43309,   43335, 43345,   43392, 43394,   43443, 43443,
    43446, 43449,   43452, 43453,   43471, 43471,   43493, 43494,   43561, 43566,   43569, 43570,
    43573, 43574,   43587, 43587,   43596, 43596,   43632, 43632,   43644, 43644,   43696, 43696,
    43698, 43700,   43703, 43704,   43710, 43711,   43713, 43713,   43741, 43741,   43756, 43757,
    43763, 43764,   43766, 43766,   43867, 43871,   43881, 43883,   44005, 44005,   44008, 44008,
    44013, 44013,   64286, 64286,   64434, 64450,   65024, 65039,   65043, 65043,   65056, 65071,
    65106, 65106,   65109, 65109,   65279, 65279,   65287, 65287,   65294, 65294,   65306, 65306,
    65342, 65342,   65344, 65344,   65392, 65392,   65438, 65439,   65507, 65507,   65529, 65531,
    66045, 66045,   66272, 66272,   66422, 66426,   67456, 67461,   67463, 67504,   67506, 67514,
    68097, 68099,   68101, 68102,   68108, 68111,   68152, 68154,   68159, 68159,   68325, 68326,
    68900, 68903,   69291, 69292,   69446, 69456,   69506, 69509,   69633, 69633,   69688, 69702,
    69744, 69744,   69747, 69748,   69759, 69761,   69811, 69814,   69817, 69818,   69821, 69821,
    69826, 69826,   69837, 69837,   69888, 69890,   69927, 69931,   69933, 69940,   70003, 70003,
    70016, 70017,   70070, 70078,   70089, 70092,   70095, 70095,   70191, 70193,   70196, 70196,
    70198, 70199,   70206, 70206,   70367, 70367,   70371, 70378,   70400, 70401,   70459, 70460,
    70464, 70464,   70502, 70508,   70512, 70516,   70712, 70719,   70722, 70724,   70726, 70726,
    70750, 70750,   70835, 70840,   70842, 70842,   70847, 70848,   70850, 70851,   71090, 71093,
    71100, 71101,   71103, 71104,   71132, 71133,   71219, 71226,   71229, 71229,   71231, 71232,
    71339, 71339,   71341, 71341,   71344, 71349,   71351, 71351,   71453, 71455,   71458, 71461,
    71463, 71467,   71727, 71735,   71737, 71738,   71995, 71996,   71998, 71998,   72003, 72003,
    72148, 72151,   72154, 72155,   72160, 72160,   72193, 72202,   72243, 72248,   72251, 72254,
    72263, 72263,   72273, 72278,   72281, 72283,   72330, 72342,   72344, 72345,   72752, 72758,
    72760, 72765,   72767, 72767,   72850, 72871,   72874, 72880,   72882, 72883,   72885, 72886,
    73009, 73014,   73018, 73018,   73020, 73021,   73023, 73029,   73031, 73031,   73104, 73105,
    73109, 73109,   73111, 73111,   73459, 73460,   78896, 78904,   92912, 92916,   92976, 92982,
    92992, 92995,   94031, 94031,   94095, 94111,   94176, 94177,   94179, 94180,   110576, 110579,
    110581, 110587,   110589, 110590,   113821, 113822,   113824, 113827,   118528, 118573,   118576, 118598,
    119143, 119145,   119155, 119170,   119173, 119179,   119210, 119213,   119362, 119364,   121344, 121398,
    121403, 121452,   121461, 121461,   121476, 121476,   121499, 121503,   121505, 121519,   122880, 122886,
    122888, 122904,   122907, 122913,   122915, 122916,   122918, 122922,   123184, 123197,   123566, 123566,
    123628, 123631,   125136, 125142,   125252, 125259,   127995, 127999,   917505, 917505,   917536, 917631,
    917760, 917999
  >>

\* the code points that are letters with a case (Unicode property Cased)
\* and are not skipped, two numbers to a range: first, last
CasedRanges ==
  <<
    65, 90,   97, 122,   170, 170,   181, 181,   186, 186,   192, 214,
    216, 246,   248, 442,   444, 447,   452, 659,   661, 687,   880, 883,
    886, 887,   891, 893,   895, 895,   902, 902,   904, 906,   908, 908,
    910, 929,   931, 1013,   1015, 1153,   1162, 1327,   1329, 1366,   1376, 1416,
    4256, 4293,   4295, 4295,   4301, 4301,   4304, 4346,   4349, 4351,   5024, 5109,
    5112, 5117,   7296, 7304,   7312, 7354,   7357, 7359,   7424, 7467,   7531, 7543,
    7545, 7578,   7680, 7957,   7960, 7965,   7968, 8005,   8008, 8013,   8016, 8023,
    8025, 8025,   8027, 8027,   8029, 8029,   8031, 8061,   8064, 8116,   8118, 8124,
    8126, 8126,   8130, 8132,   8134, 8140,   8144, 8147,   8150, 8155,   8160, 8172,
    8178, 8180,   8182, 8188,   8450, 8450,   8455, 8455,   8458, 8467,   8469, 8469,
    8473, 8477,   8484, 8484,   8486, 8486,   8488, 8488,   8490, 8493,   8495, 8500,
    8505, 8505,   8508, 8511,   8517, 8521,   8526, 8526,   8544, 8575,   8579, 8580,
    9398, 9449,   11264, 11387,   11390, 11492,   11499, 11502,   11506, 11507,   11520, 11557,
    11559, 11559,   11565, 11565,   42560, 42605,   42624, 42651,   42786, 42863,   42865, 42887,
    42891, 42894,   42896, 42954,   42960, 42961,   42963, 42963,   42965, 42969,   42997, 42998,
    43002, 43002,   43824, 43866,   43872, 43880,   43888, 43967,   64256, 64262,   64275, 64279,
    65313, 65338,   65345, 65370,   66560, 66639,   66736, 66771,   66776, 66811,   66928, 66938,
    66940, 66954,   66956, 66962,   66964, 66965,   66967, 66977,   66979, 66993,   66995, 67001,
    67003, 67004,   68736, 68786,   68800, 68850,   71840, 71903,   93760, 93823,   119808, 119892,
    119894, 119964,   119966, 119967,   119970, 119970,   119973, 119974,   119977, 119980,   119982, 119993,
    119995, 119995,   119997, 120003,   120005, 120069,   120071, 120074,   120077, 120084,   120086, 120092,
    120094, 120121,   120123, 120126,   120128, 120132,   120134, 120134,   120138, 120144,   120146, 120485,
    120488, 120512,   120514, 120538,   120540, 120570,   120572, 120596,   120598, 120628,   120630, 120654,
    120656, 120686,   120688, 120712,   120714, 120744,   120746, 120770,   120772, 120779,   122624, 122633,
    122635, 122654,   125184, 125251,   127280, 127305,   127312, 127337,   127344, 127369
  >>

\* c lies in one of the ranges of a table of two numbers to a range
InRanges(c, ranges) ==
  \E k \in 1..(Len(ranges) \div 2) : ranges[2 * k - 1] <= c /\ c <= ranges[2 * k]

CaseIgnorable(c) == InRanges(c, CaseIgnorableRanges)

Cased(c) == InRanges(c, CasedRanges)

\* a code point that no rule of LowerRules covers: one below 192 other than
\* A-Z, or one between the rules of 11506 and 42560 (kana and ideographs
\* among them)
Plain(c) == c < 65 \/ (90 < c /\ c < 192) \/ (11506 < c /\ c < 42560)

\* the lower-case form of a code point that has one
LowerOne(c) ==
  LET First(k) == LowerRules[4 * k - 3]
      hits == {k \in 1..(Len(LowerRules) \div 4) :
                 First(k) <= c /\ c <= LowerRules[4 * k - 2]
                   /\ (c - First(k)) % LowerRules[4 * k - 1] = 0}
  IN IF Plain(c) \/ hits = {} THEN c
     ELSE c + LowerRules[4 * (CHOOSE k \in hits : TRUE)]

\* str.lower() of the text of one code point: A-Z by the rule of ASCII, the
\* capital I with a dot above (304) becomes i and a combining dot, two code
\* points; a code point without a lower-case form is kept
LowerChar(c) ==
  IF c < 128 THEN (IF c \in 65..90 THEN <<c + 32>> ELSE <<c>>)
  ELSE IF c = 304 THEN <<105, 775>>
  ELSE <<LowerOne(c)>>

\* a capital sigma (931) at place i ends a word when the nearest code point
\* before it that is not skipped is a cased letter and the nearest one after
\* it that is not skipped, if any, is not
final_sigma(s, i) ==
  LET before == {j \in 1..(i - 1) : ~CaseIgnorable(s[j])}
      after == {j \in (i + 1)..Len(s) : ~CaseIgnorable(s[j])}
      Highest(S) == CHOOSE j \in S : \A k \in S : k <= j
      Lowest(S) == CHOOSE j \in S : \A k \in S : j <= k
  IN /\ before # {}
     /\ Cased(s[Highest(before)])
     /\ after # {} => ~Cased(s[Lowest(after)])

\* the lower-case form of the code point at place i of s
LowerAt(s, i) ==
  IF s[i] = 931 THEN (IF final_sigma(s, i) THEN <<962>> ELSE <<963>>)
  ELSE LowerChar(s[i])

\* str.lower(): the lower-case forms of the code points of s, one after the
\* other. Place i of s gives the code points from i + Doubled(i - 1) on,
\* Doubled(i) being the number of places up to i that give two. A text of
\* plain code points and A-Z is done by the rule of ASCII alone.
Lower(s) ==
  LET Doubled(i) == Cardinality({j \in 1..i : s[j] = 304})
  IN  IF \A i \in 1..Len(s) : Plain(s[i]) \/ (65 <= s[i] /\ s[i] <= 90)
        THEN [i \in 1..Len(s) |-> IF 65 <= s[i] /\ s[i] <= 90 THEN s[i] + 32 ELSE s[i]]
      ELSE IF Doubled(Len(s)) = 0 THEN [i \in 1..Len(s) |-> LowerAt(s, i)[1]]
      ELSE [k \in 1..(Len(s) + Doubled(Len(s))) |->
              LET i == CHOOSE j \in 1..Len(s) :
                         j + Doubled(j - 1) <= k /\ k <= j + Doubled(j)
              IN  LowerAt(s, i)[k - (i + Doubled(i - 1)) + 1]]

\* str.upper() of one code point, used to build inputs in another letter case
UpperChar(c) == IF c \in 97..122 THEN c - 32 ELSE c

Upper(s) == [i \in 1..Len(s) |-> UpperChar(s[i])]

\* kw in text: kw occurs in text as a contiguous substring
Contains(kw, text) ==
  \E i \in 0..(Len(text) - Len(kw)) :
    \A j \in 1..Len(kw) : text[i + j] = kw[j]

\* any(kw in text for kw in keywords)
AnyIn(keywords, text) ==
  \E i \in 1..Len(keywords) : Contains(keywords[i], text)

\* int() replaced by a rounding toward minus infinity
IntMul_Floor(x, num, den) == (x * num) \div den

\* int(x * num / den): Python's int() drops the fractional part, toward zero.
\* The factors 1.2, 1.0, 0.8 and 1.1 are num/den = 12/10, 10/10, 8/10, 11/10;
\* on the integers a sum of keyword weights can take, the float product
\* truncates to the same integer as the exact product.
IntMul(x, num, den) ==
  IF x * num >= 0 THEN (x * num) \div den ELSE -((-(x * num)) \div den)

\* ------------------------------------------------------------------------
\* Keyword tables
\* ------------------------------------------------------------------------
\* scorer.py lines 35-48: keyword -> weight, in dict order;
\* each keyword is the sequence of its Unicode code points.
positive_keywords ==
  << [kw |-> <<36942, 21435, 26368, 39640>>, val |-> 3],
     [kw |-> <<24613, 39472>>, val |-> 3],
     [kw |-> <<22823, 24133, 19978, 26119>>, val |-> 3],
     [kw |-> <<20104, 24819, 19978, 22238, 12427>>, val |-> 3],
     [kw |-> <<98, 101, 97, 116, 32, 101, 120, 112, 101, 99, 116, 97, 116, 105, 111, 110, 115>>, val |-> 3],
     [kw |-> <<114, 101, 99, 111, 114, 100, 32, 104, 105, 103, 104>>, val |-> 3],
     [kw |-> <<115, 117, 114, 103, 101>>, val |-> 3],
     [kw |-> <<21033, 19979, 12370>>, val |-> 2],
     [kw |-> <<37329, 34701, 32233, 21644>>, val |-> 2],
     [kw |-> <<26223, 27671, 22238, 24489>>, val |-> 2],
     [kw |-> <<114, 97, 116, 101, 32, 99, 117, 116>>, val |-> 2],
     [kw |-> <<101, 97, 115, 105, 110, 103>>, val |-> 2],
     [kw |-> <<114, 101, 99, 111, 118, 101, 114, 121>>, val |-> 2],
     [kw |-> <<19978, 26119>>, val |-> 2],
     [kw |-> <<22679, 30410>>, val |-> 2],
     [kw |-> <<22909, 35519>>, val |-> 2],
     [kw |-> <<25913, 21892>>, val |-> 2],
     [kw |-> <<25104, 38263>>, val |-> 2],
     [kw |-> <<36023, 12356, 36234, 12375>>, val |-> 2],
     [kw |-> <<38656, 35201, 22679>>, val |-> 2],
     [kw |-> <<114, 105, 115, 101>>, val |-> 2],
     [kw |-> <<103, 114, 111, 119, 116, 104>>, val |-> 2],
     [kw |-> <<103, 97, 105, 110, 115>>, val |-> 2],
     [kw |-> <<114, 97, 108, 108, 121>>, val |-> 2],
     [kw |-> <<22533, 35519>>, val |-> 1],
     [kw |-> <<23433, 23450>>, val |-> 1],
     [kw |-> <<32173, 25345>>, val |-> 1],
     [kw |-> <<24213, 22533, 12356>>, val |-> 1],
     [kw |-> <<115, 116, 97, 98, 108, 101>>, val |-> 1],
     [kw |-> <<115, 116, 101, 97, 100, 121>>, val |-> 1] >>

\* scorer.py lines 51-64: keyword -> weight, in dict order;
\* each keyword is the sequence of its Unicode code points.
negative_keywords ==
  << [kw |-> <<26292, 33853>>, val |-> -3],
     [kw |-> <<24613, 33853>>, val |-> -3],
     [kw |-> <<21361, 27231>>, val |-> -3],
     [kw |-> <<30772, 32187>>, val |-> -3],
     [kw |-> <<12487, 12501, 12457, 12523, 12488>>, val |-> -3],
     [kw |-> <<99, 114, 97, 115, 104>>, val |-> -3],
     [kw |-> <<112, 108, 117, 110, 103, 101>>, val |-> -3],
     [kw |-> <<99, 114, 105, 115, 105, 115>>, val |-> -3],
     [kw |-> <<100, 101, 102, 97, 117, 108, 116>>, val |-> -3],
     [kw |-> <<21033, 19978, 12370>>, val |-> -2],
     [kw |-> <<37329, 34701, 24341, 12365, 32224, 12417>>, val |-> -2],
     [kw |-> <<12522, 12475, 12483, 12471, 12519, 12531>>, val |-> -2],
     [kw |-> <<114, 97, 116, 101, 32, 104, 105, 107, 101>>, val |-> -2],
     [kw |-> <<116, 105, 103, 104, 116, 101, 110, 105, 110, 103>>, val |-> -2],
     [kw |-> <<114, 101, 99, 101, 115, 115, 105, 111, 110>>, val |-> -2],
     [kw |-> <<19979, 33853>>, val |-> -2],
     [kw |-> <<28187, 30410>>, val |-> -2],
     [kw |-> <<24746, 21270>>, val |-> -2],
     [kw |-> <<20302, 19979>>, val |-> -2],
     [kw |-> <<28187, 23569>>, val |-> -2],
     [kw |-> <<22770, 12426, 36234, 12375>>, val |-> -2],
     [kw |-> <<38656, 35201, 28187>>, val |-> -2],
     [kw |-> <<12452, 12531, 12501, 12524, 25080, 24565>>, val |-> -2],
     [kw |-> <<100, 101, 99, 108, 105, 110, 101>>, val |-> -2],
     [kw |-> <<100, 114, 111, 112>>, val |-> -2],
     [kw |-> <<102, 97, 108, 108>>, val |-> -2],
     [kw |-> <<108, 111, 115, 115>>, val |-> -2],
     [kw |-> <<116, 97, 114, 105, 102, 102>>, val |-> -2],
     [kw |-> <<36575, 35519>>, val |-> -1],
     [kw |-> <<24369, 21547, 12415>>, val |-> -1],
     [kw |-> <<35686, 25106>>, val |-> -1],
     [kw |-> <<25080, 24565>>, val |-> -1],
     [kw |-> <<117, 110, 99, 101, 114, 116, 97, 105, 110, 116, 121>>, val |-> -1],
     [kw |-> <<99, 111, 110, 99, 101, 114, 110>>, val |-> -1],
     [kw |-> <<99, 97, 117, 116, 105, 111, 117, 115>>, val |-> -1] >>

\* classifier.py lines 24-29
market_keywords ==
  << <<26085, 32076, 24179, 22343>>,
     <<84, 79, 80, 73, 88>>,
     <<12480, 12454>>,
     <<83, 38, 80>>,
     <<12490, 12473, 12480, 12483, 12463>>,
     <<78, 65, 83, 68, 65, 81>>,
     <<70, 82, 66>>,
     <<26085, 37504>>,
     <<37329, 34701, 25919, 31574>>,
     <<37329, 21033>>,
     <<20870, 23433>>,
     <<20870, 39640>>,
     <<71, 68, 80>>,
     <<12452, 12531, 12501, 12524>>,
     <<67, 80, 73>>,
     <<38599, 29992, 32113, 35336>>,
     <<26223, 27671>>,
     <<21033, 19978, 12370>>,
     <<21033, 19979, 12370>>,
     <<37327, 30340, 32233, 21644>>,
     <<81, 69>> >>

\* classifier.py lines 32-40: group name -> keywords, in dict order
sector_keywords ==
  << [name |-> <<12486, 12463, 12494, 12525, 12472, 12540>>,
      kws |-> << <<65, 73>>, <<21322, 23566, 20307>>, <<12463, 12521, 12454, 12489>>, <<12477, 12501, 12488, 12454, 12455, 12450>>, <<73, 84>>, <<12456, 12492, 12499, 12487, 12451, 12450>>, <<78, 86, 73, 68, 73, 65>> >>],
     [name |-> <<37329, 34701>>,
      kws |-> << <<37504, 34892>>, <<35388, 21048>>, <<20445, 38522>>, <<12513, 12460, 12496, 12531, 12463>>, <<37329, 34701, 27231, 38306>> >>],
     [name |-> <<33258, 21205, 36554>>,
      kws |-> << <<33258, 21205, 36554>>, <<69, 86>>, <<38651, 27671, 33258, 21205, 36554>>, <<12488, 12520, 12479>>, <<12507, 12531, 12480>> >>],
     [name |-> <<19981, 21205, 29987>>,
      kws |-> << <<19981, 21205, 29987>>, <<82, 69, 73, 84>>, <<20303, 23429>> >>],
     [name |-> <<12456, 12493, 12523, 12462, 12540>>,
      kws |-> << <<21407, 27833>>, <<30707, 27833>>, <<12460, 12473>>, <<38651, 21147>>, <<20877, 12456, 12493>> >>],
     [name |-> <<12504, 12523, 12473, 12465, 12450>>,
      kws |-> << <<35069, 34220>>, <<21307, 30274>>, <<12496, 12452, 12458>>, <<12504, 12523, 12473, 12465, 12450>> >>],
     [name |-> <<28040, 36027>>,
      kws |-> << <<23567, 22770>>, <<28040, 36027>>, <<69, 67>>, <<36890, 36009>> >>] >>

\* classifier.py lines 43-48: group name -> keywords, in dict order
theme_keywords ==
  << [name |-> <<22320, 25919, 23398, 12522, 12473, 12463>>,
      kws |-> << <<25126, 20105>>, <<32027, 20105>>, <<21046, 35009>>, <<22320, 25919, 23398>>, <<12454, 12463, 12521, 12452, 12490>>, <<20013, 26481>>, <<21488, 28286>> >>],
     [name |-> <<35215, 21046, 12539, 25919, 31574>>,
      kws |-> << <<35215, 21046>>, <<27861, 26696>>, <<27861, 24459>>, <<29420, 31105, 27861>>, <<35215, 21046, 32233, 21644>> >>],
     [name |-> <<27770, 31639, 12539, 26989, 32318>>,
      kws |-> << <<27770, 31639>>, <<26989, 32318>>, <<22770, 19978>>, <<21033, 30410>>, <<22679, 21454>>, <<28187, 30410>> >>],
     [name |-> <<77, 38, 65>>,
      kws |-> << <<36023, 21454>>, <<21512, 20341>>, <<77, 38, 65>>, <<84, 79, 66>>, <<32113, 21512>> >>] >>

\* config.py lines 36-40
CATEGORIES ==
  [c \in {"market", "sector", "theme"} |->
     IF c = "market" THEN <<24066, 22580, 20840, 20307>> ELSE
     IF c = "sector" THEN <<12475, 12463, 12479, 12540>> ELSE
     <<12486, 12540, 12510>>]


\* scorer.py lines 116-122
neutral_reasons ==
  << <<24066, 22580, 24433, 38911, 12364, 38480, 23450, 30340, 12392, 21028, 26029>>,
     <<23450, 24615, 30340, 24773, 22577, 12395, 30041, 12414, 12426, 12289, 20385, 26684, 26448, 26009, 19981, 36275>>,
     <<24066, 22580, 20840, 20307, 12408, 12398, 27874, 21450, 12364, 19981, 26126, 30906>>,
     <<20491, 21029, 12539, 35441, 38988, 24615, 20013, 24515, 12391, 25351, 25968, 24433, 38911, 12399, 38480, 23450, 30340>>,
     <<20107, 23455, 22577, 36947, 12391, 26041, 21521, 24615, 12434, 26029, 23450, 12391, 12365, 12378>> >>

\* scorer.py lines 128-146: the literal text of each reason template before
\* the keyword list (every template ends with the closing bracket U+FF09)
reason_templates ==
  [mixed        |-> <<22909, 24746, 26448, 26009, 12364, 28151, 22312, 65288, 43, 58, 32>>,
   mixed_sep    |-> <<32, 47, 32, 45, 58, 32>>,
   strong_pos   |-> <<24375, 12356, 22909, 26448, 26009, 12354, 12426, 65288>>,
   moderate_pos |-> <<12420, 12420, 22909, 26448, 26009, 65288>>,
   weak_pos     |-> <<24369, 12356, 22909, 26448, 26009, 12398, 31034, 21766, 65288>>,
   strong_neg   |-> <<24375, 12356, 25080, 24565, 26448, 26009, 12354, 12426, 65288>>,
   moderate_neg |-> <<12420, 12420, 25080, 24565, 26448, 26009, 65288>>,
   weak_neg     |-> <<24369, 12356, 25080, 24565, 26448, 26009, 12398, 31034, 21766, 65288>>,
   close        |-> <<65289>>,
   insufficient |-> <<23450, 24615, 30340, 24773, 22577, 12395, 30041, 12414, 12426, 12289, 20385, 26684, 26448, 26009, 19981, 36275>>]


\* ------------------------------------------------------------------------
\* analyzer/classifier.py
\* ------------------------------------------------------------------------
\* the loop without its break: the last matching group
FirstGroup_NoBreak(table, text) ==
  IF \E g \in 1..Len(table) : AnyIn(table[g].kws, text)
  THEN CHOOSE g \in 1..Len(table) :
         /\ AnyIn(table[g].kws, text)
         /\ \A h \in (g + 1)..Len(table) : ~AnyIn(table[h].kws, text)
  ELSE 0

\* index of the first group of the table with a keyword in the text, 0 if none
\* (the for ... break loops of classify_news)
FirstGroup(table, text) ==
  IF \E g \in 1..Len(table) : AnyIn(table[g].kws, text)
  THEN CHOOSE g \in 1..Len(table) :
         /\ AnyIn(table[g].kws, text)
         /\ \A h \in 1..(g - 1) : ~AnyIn(table[h].kws, text)
  ELSE 0

\* classify_news(news_text, source): text_lower is computed (line 21) but
\* the three tables are matched against news_text itself (lines 56, 63, 69)
classify_news(news_text, source) ==
  LET text_lower == Lower(news_text)
      \* default
      c0 == [category |-> "market", sub_category |-> None]
      \* sector
      sg == FirstGroup(sector_keywords, news_text)
      c1 == IF sg # 0
            THEN [category |-> "sector", sub_category |-> sector_keywords[sg].name]
            ELSE c0
      \* theme
      tg == FirstGroup(theme_keywords, news_text)
      c2 == IF tg # 0
            THEN [category |-> "theme", sub_category |-> theme_keywords[tg].name]
            ELSE c1
      \* market (highest priority)
      c3 == IF AnyIn(market_keywords, news_text)
            THEN [category |-> "market", sub_category |-> None]
            ELSE c2
  IN  [k \in {"text", "source", "category", "category_name", "sub_category"} |->
         CASE k = "text" -> news_text
           [] k = "source" -> source
           [] k = "category" -> c3.category
           [] k = "category_name" -> Get(CATEGORIES, c3.category, c3.category)
           [] k = "sub_category" -> c3.sub_category]

\* ------------------------------------------------------------------------
\* analyzer/scorer.py
\* ------------------------------------------------------------------------
\* kw.lower() of every entry of a table (lines 70, 75)
WithLower(table) ==
  [i \in 1..Len(table) |->
     [kw |-> table[i].kw, lower |-> Lower(table[i].kw), val |-> table[i].val]]

positive_lower == WithLower(positive_keywords)
negative_lower == WithLower(negative_keywords)

\* the keywords of a table found in the text, in table order
\* (matched_positive / matched_negative, lines 69-77)
Matched(table, text_lower) ==
  SelectSeq(table, LAMBDA e : Contains(e.lower, text_lower))

RECURSIVE SumVal(_)
SumVal(entries) ==
  IF entries = << >> THEN 0 ELSE Head(entries).val + SumVal(Tail(entries))

\* lines 82-89
CategoryAdjust(score, category) ==
  CASE category = "market" -> IntMul(score, 12, 10)
    [] category = "sector" -> IntMul(score, 10, 10)
    [] category = "theme"  -> IntMul(score, 8, 10)
    [] OTHER -> score

\* lines 93-96
SourceAdjust(score, source) ==
  IF source = "foreign" THEN IntMul(score, 11, 10) ELSE score

Max2(a, b) == IF a >= b THEN a ELSE b
Min2(a, b) == IF a <= b THEN a ELSE b

\* Clamp without the upper bound
Clamp_NoUpper(score) == Max2(SCORE_MIN, score)

\* line 99
Clamp(score) == Max2(SCORE_MIN, Min2(SCORE_MAX, score))

\* positive[:n]
Take(seq, n) == SubSeq(seq, 1, Min2(n, Len(seq)))

\* ', '.join(kws) for a list of texts
RECURSIVE JoinComma(_)
JoinComma(kws) ==
  IF kws = << >> THEN << >>
  ELSE IF Len(kws) = 1 THEN kws[1]
  ELSE kws[1] \o <<44, 32>> \o JoinComma(Tail(kws))

\* the keywords of a list of table entries
Kws(entries) == [i \in 1..Len(entries) |-> entries[i].kw]

\* _generate_reason with the strong band beginning above 5
generate_reason_StrongAboveFive(score, positive, negative, choice) ==
  LET T == reason_templates IN
  IF score = 0 THEN
    IF positive = << >> /\ negative = << >> THEN neutral_reasons[choice]
    ELSE IF positive # << >> /\ negative # << >> THEN
      T.mixed \o JoinComma(Take(positive, 2)) \o T.mixed_sep
              \o JoinComma(Take(negative, 2)) \o T.close
    ELSE T.insufficient
  ELSE IF score > 0 THEN
    IF score > 5 THEN T.strong_pos \o JoinComma(Take(positive, 3)) \o T.close
    ELSE IF score >= 2 THEN T.moderate_pos \o JoinComma(Take(positive, 2)) \o T.close
    ELSE T.weak_pos \o JoinComma(Take(positive, 2)) \o T.close
  ELSE
    IF score <= -5 THEN T.strong_neg \o JoinComma(Take(negative, 3)) \o T.close
    ELSE IF score <= -2 THEN T.moderate_neg \o JoinComma(Take(negative, 2)) \o T.close
    ELSE T.weak_neg \o JoinComma(Take(negative, 2)) \o T.close

\* _generate_reason(score, positive, negative, category); choice is the index
\* random.choice draws in neutral_reasons (line 126)
generate_reason(score, positive, negative, choice) ==
  LET T == reason_templates IN
  IF score = 0 THEN
    IF positive = << >> /\ negative = << >> THEN neutral_reasons[choice]
    ELSE IF positive # << >> /\ negative # << >> THEN
      T.mixed \o JoinComma(Take(positive, 2)) \o T.mixed_sep
              \o JoinComma(Take(negative, 2)) \o T.close
    ELSE T.insufficient
  ELSE IF score > 0 THEN
    IF score >= 5 THEN T.strong_pos \o JoinComma(Take(positive, 3)) \o T.close
    ELSE IF score >= 2 THEN T.moderate_pos \o JoinComma(Take(positive, 2)) \o T.close
    ELSE T.weak_pos \o JoinComma(Take(positive, 2)) \o T.close
  ELSE
    IF score <= -5 THEN T.strong_neg \o JoinComma(Take(negative, 3)) \o T.close
    ELSE IF score <= -2 THEN T.moderate_neg \o JoinComma(Take(negative, 2)) \o T.close
    ELSE T.weak_neg \o JoinComma(Take(negative, 2)) \o T.close

\* calculate_impact_score, lines 25-99: the clamped score and the keywords
\* matched on the way
impact(classified_news) ==
  LET text       == Get(classified_news, "text", << >>)
      category   == Get(classified_news, "category", "market")
      text_lower == Lower(text)
      matched_positive == Matched(positive_lower, text_lower)
      matched_negative == Matched(negative_lower, text_lower)
      score0 == SumVal(matched_positive) + SumVal(matched_negative)
      score1 == CategoryAdjust(score0, category)
      source == Get(classified_news, "source", "domestic")
      score2 == SourceAdjust(score1, source)
  IN  [score |-> Clamp(score2),
       unclamped |-> score2,
       keyword_sum |-> score0,
       matched_positive |-> Kws(matched_positive),
       matched_negative |-> Kws(matched_negative)]

\* _generate_reason calls random.choice (line 126) only in this case
draws_random(r) ==
  r.score = 0 /\ r.matched_positive = << >> /\ r.matched_negative = << >>

\* the indexes random.choice can draw while the item is scored
RandomChoices(classified_news) ==
  IF draws_random(impact(classified_news)) THEN 1..Len(neutral_reasons) ELSE {1}

\* calculate_impact_score with the random draw entering the score
calculate_impact_score_RandomScore(classified_news, choice) ==
  LET r == impact(classified_news)
  IN  << Clamp(r.score + choice - 1),
         generate_reason(r.score, r.matched_positive, r.matched_negative, choice) >>

\* calculate_impact_score(classified_news) -> (score, reason), lines 101-104
calculate_impact_score(classified_news, choice) ==
  LET r == impact(classified_news)
  IN  << r.score,
         generate_reason(r.score, r.matched_positive, r.matched_negative, choice) >>

\* classify_news_batch raises KeyError at the first item without "text"
\* (item["text"], classifier.py line 95)
classify_news_batch_raises(news_list) ==
  \E i \in 1..Len(news_list) : "text" \notin DOMAIN news_list[i]

\* classify_news_batch without the merge of the caller's fields
classify_news_batch_NoMerge(news_list) ==
  [i \in 1..Len(news_list) |->
     classify_news(news_list[i]["text"], Get(news_list[i], "source", "domestic"))]

\* classify_news_batch(news_list), when it returns (classifier.py lines 92-99)
classify_news_batch(news_list) ==
  [i \in 1..Len(news_list) |->
     LET item == news_list[i]
         classified == classify_news(item["text"], Get(item, "source", "domestic"))
     IN  Merge(item, classified)]

\* score_news_batch(classified_news_list) (scorer.py lines 153-160); choices[i]
\* is the index random.choice draws while item i is scored
score_news_batch(classified_news_list, choices) ==
  [i \in 1..Len(classified_news_list) |->
     LET news == classified_news_list[i]
         res  == calculate_impact_score(news, choices[i])
     IN  Merge(news, ("impact_score" :> res[1]) @@ ("score_reason" :> res[2]))]

\* ------------------------------------------------------------------------
\* Numbers: int / int, round(x, ndigits) and float addition
\* ------------------------------------------------------------------------
\* abs()
Abs(x) == IF x < 0 THEN -x ELSE x

RECURSIVE Pow2(_)
\* 2 ** n, n >= 0
Pow2(n) == IF n = 0 THEN 1 ELSE 2 * Pow2(n - 1)

RECURSIVE Pow2Mod(_, _)
\* (2 ** n) % m
Pow2Mod(n, m) == IF n = 0 THEN 1 % m ELSE (2 * Pow2Mod(n - 1, m)) % m

\* (2 ** n) % 20 for the exponents of a significand, computed once
Pow2Mod20 == [n \in 0..64 |-> Pow2Mod(n, 20)]

RECURSIVE GCD(_, _)
GCD(a, b) == IF b = 0 THEN a ELSE GCD(b, a % b)

\* n is a power of two
IsPow2(n) == \E k \in 0..12 : n = Pow2(k)

\* the binary exponent of a / n for a, n >= 1: floor(log2(a / n))
Exp2(a, n) ==
  IF a >= n
  THEN CHOOSE e \in 0..12 : n * Pow2(e) <= a /\ a < n * Pow2(e + 1)
  ELSE 0 - (CHOOSE j \in 1..12 : a * Pow2(j) >= n /\ a * Pow2(j - 1) < n)

\* round(P / N, ndigits) for integers P and N >= 1, in units of 1 / m where
\* m = 10 ** ndigits. P / N is the double nearest to the quotient, and round
\* gives the decimal nearest to that double: a quotient half-way between two
\* decimals goes to the even one when the double is the quotient itself (a
\* binary fraction), and otherwise to the side the double lies on, which the
\* remainder of the 53-bit significand tells.
round_div(P, N, m) ==
  IF P = 0 THEN 0
  ELSE LET sg == IF P > 0 THEN 1 ELSE -1
           a == Abs(P)
           fl == (a * m) \div N
           rem == (a * m) % N
           up == IF 2 * rem < N THEN FALSE
                 ELSE IF 2 * rem > N THEN TRUE
                 ELSE IF IsPow2(N \div GCD(a, N)) THEN fl % 2 = 1
                 ELSE 2 * (((a % N) * Pow2Mod(52 - Exp2(a, N), N)) % N) > N
       IN  sg * (IF up THEN fl + 1 ELSE fl)

\* A double near a number of tenths is the record [t, E]: the value
\* t / 10 + E * u with u = 1 / (10 * 2 ** 56). Every double of magnitude
\* 1/16 or more is a multiple of 2 ** -56, and so are the sums and the
\* differences of such doubles, so that E is an integer.
Float(t, E) == [t |-> t, E |-> E]

\* the double nearest to c / 10 + S * u (round to nearest, ties to the even
\* significand). For c # 0 the doubles around c / 10 are e == Exp2(|c|, 10)
\* binades up, 2 ** (e - 52) apart, that is 10 * w units with
\* w == 2 ** (e + 4); below a power of two they are half as far apart.
\* r20 is the significand of c / 10 times ten, modulo 20.
RoundNearest(c, S) ==
  IF c = 0 THEN Float(0, S)
  ELSE LET sg == IF c > 0 THEN 1 ELSE -1
           a == Abs(c)
           s == sg * S
           e == Exp2(a, 10)
           w == Pow2(e + 4)
           r20 == ((a % 20) * Pow2Mod20[52 - e]) % 20
           r == r20 % 10
       IN  IF a * 16 = 10 * w /\ s < 0
           THEN LET h == 5 * w
                    k == (0 - s) \div h
                    lo == 0 - (k + 1) * h
                    hi == 0 - k * h
                    g == IF 2 * s > lo + hi THEN hi
                         ELSE IF 2 * s < lo + hi THEN lo
                         ELSE IF k % 2 = 0 THEN hi ELSE lo
                IN  Float(c, sg * g)
           ELSE LET n == (s + r * w) \div (10 * w)
                    lo == w * (10 * n - r)
                    hi == lo + 10 * w
                    odd(g) == ((r20 + g \div w) % 20) \div 10 = 1
                    g == IF 2 * s > lo + hi THEN hi
                         ELSE IF 2 * s < lo + hi THEN lo
                         ELSE IF odd(lo) THEN hi ELSE lo
                IN  Float(c, sg * g)

\* the doubles of the decimals with one digit from -30.0 to 30.0, computed
\* once
DblTable == [t \in -300..300 |-> RoundNearest(t, 0)]

\* float(t / 10): the double of a decimal with one digit
Dbl(t) == IF t \in DOMAIN DblTable THEN DblTable[t] ELSE RoundNearest(t, 0)

\* x + y
FAdd(x, y) == RoundNearest(x.t + y.t, x.E + y.E)

\* x - y
FSub(x, y) == RoundNearest(x.t - y.t, x.E - y.E)

RECURSIVE FSum(_)
\* sum(xs): the additions from 0, left to right
FSum(xs) ==
  IF xs = << >> THEN Float(0, 0)
  ELSE FAdd(FSum(SubSeq(xs, 1, Len(xs) - 1)), xs[Len(xs)])

\* -1, 0 or 1 as x < 0, x = 0 or x > 0
FSign(x) ==
  IF x.t # 0 THEN (IF x.t > 0 THEN 1 ELSE -1)
  ELSE IF x.E > 0 THEN 1 ELSE IF x.E < 0 THEN -1 ELSE 0

\* abs(x)
FAbs(x) == IF FSign(x) < 0 THEN Float(0 - x.t, 0 - x.E) ELSE x

\* x >= n for an integer n
FGE(x, n) == x.t > 10 * n \/ (x.t = 10 * n /\ x.E >= 0)

\* the digits of n >= 0
RECURSIVE Digits(_)
Digits(n) == IF n < 10 THEN <<48 + n>> ELSE Append(Digits(n \div 10), 48 + (n % 10))

\* f"{x:.1f}" of a double x near t tenths, t # 0
Format1(t) ==
  (IF t < 0 THEN <<45>> ELSE << >>) \o Digits(Abs(t) \div 10) \o <<46>>
    \o Digits(Abs(t) % 10)

\* f"{x:+.1f}"
FormatSigned1(t) == (IF t < 0 THEN << >> ELSE <<43>>) \o Format1(t)

\* ------------------------------------------------------------------------
\* Numbers: the difference of two quotients (scorer.py line 192)
\* ------------------------------------------------------------------------
\* A double is held exactly, as a sign and a whole number of units of
\* 2 ** -75: every double of magnitude 2 ** -22 or more is such a number, and
\* a quotient a / b with 1 <= a and b < 2 ** 15 is above 2 ** -15. The whole
\* number is the sequence of its six (LimbCount) digits to the base 2 ** 15,
\* the lowest first.
LimbBase == 32768

LimbCount == 6

\* 2 ** n for the shifts inside one digit
Pow2Table ==
  (0 :> 1) @@ <<2, 4, 8, 16, 32, 64, 128, 256, 512, 1024, 2048, 4096, 8192,
                16384, 32768>>

\* the number whose digit i is D(i)
Limbs(D(_)) == <<D(1), D(2), D(3), D(4), D(5), D(6)>>

BigZero == <<0, 0, 0, 0, 0, 0>>

\* digit i of x, 0 outside it
Limb(x, i) == IF i \in 1..LimbCount THEN x[i] ELSE 0

\* a * 2 ** 75 for 0 <= a < 2 ** 15
BigOfInt(a) == <<0, 0, 0, 0, 0, a>>

RECURSIVE BigDivFrom(_, _, _, _)
\* the digits 1..i of the quotient of (rem, digits i..1 of x) by b, and the
\* remainder: long division from the highest digit down
BigDivFrom(x, b, i, rem) ==
  IF i = 0 THEN [q |-> << >>, r |-> rem]
  ELSE LET cur == rem * LimbBase + x[i]
           lower == BigDivFrom(x, b, i - 1, cur % b)
       IN  [q |-> Append(lower.q, cur \div b), r |-> lower.r]

\* x \div b and x % b for 1 <= b < 2 ** 15
BigDivSmall(x, b) == BigDivFrom(x, b, LimbCount, 0)

RECURSIVE BitsOf(_)
\* the number of binary digits of v >= 0
BitsOf(v) == IF v = 0 THEN 0 ELSE 1 + BitsOf(v \div 2)

\* the number of binary digits of x
BigBits(x) ==
  IF x = BigZero THEN 0
  ELSE LET top == CHOOSE i \in 1..LimbCount :
                    x[i] # 0 /\ \A j \in (i + 1)..LimbCount : x[j] = 0
       IN  (top - 1) * 15 + BitsOf(x[top])

\* x \div 2 ** n
BigShr(x, n) ==
  LET w == n \div 15
      r == n % 15
      D(i) == Limb(x, i + w) \div Pow2Table[r]
                + (Limb(x, i + w + 1) % Pow2Table[r]) * Pow2Table[15 - r]
  IN  Limbs(D)

\* x * 2 ** n, which fits
BigShl(x, n) ==
  LET w == n \div 15
      r == n % 15
      D(i) == (Limb(x, i - w) % Pow2Table[15 - r]) * Pow2Table[r]
                + Limb(x, i - w - 1) \div Pow2Table[15 - r]
  IN  Limbs(D)

\* the highest of the n binary digits BigShr(x, n) drops
GuardBit(x, n) ==
  IF n = 0 THEN 0
  ELSE (x[(n - 1) \div 15 + 1] \div Pow2Table[(n - 1) % 15]) % 2

\* one of the dropped digits below the highest is 1
BitsBelowGuard(x, n) ==
  /\ n > 0
  /\ \/ x[(n - 1) \div 15 + 1] % Pow2Table[(n - 1) % 15] # 0
     \/ \E j \in 1..((n - 1) \div 15) : x[j] # 0

\* the whole number m < 2 ** 15
BigOfSmall(m) == <<m, 0, 0, 0, 0, 0>>

RECURSIVE BigAddFrom(_, _, _, _)
\* the digits i.. of x + y + carry
BigAddFrom(x, y, i, carry) ==
  IF i > LimbCount THEN << >>
  ELSE <<(x[i] + y[i] + carry) % LimbBase>>
         \o BigAddFrom(x, y, i + 1, (x[i] + y[i] + carry) \div LimbBase)

\* x + y
BigAdd(x, y) == BigAddFrom(x, y, 1, 0)

RECURSIVE BigSubFrom(_, _, _, _)
\* the digits i.. of x - y - borrow
BigSubFrom(x, y, i, borrow) ==
  IF i > LimbCount THEN << >>
  ELSE LET v == x[i] - y[i] - borrow
       IN  <<IF v < 0 THEN v + LimbBase ELSE v>>
             \o BigSubFrom(x, y, i + 1, IF v < 0 THEN 1 ELSE 0)

\* x - y for x >= y
BigSub(x, y) == BigSubFrom(x, y, 1, 0)

\* x < y
BigLess(x, y) ==
  \E i \in 1..LimbCount :
    x[i] < y[i] /\ \A j \in (i + 1)..LimbCount : x[j] = y[j]

RECURSIVE BigMulFrom(_, _, _, _)
\* the digits i.. of x * m + carry
BigMulFrom(x, m, i, carry) ==
  IF i > LimbCount THEN << >>
  ELSE <<(x[i] * m + carry) % LimbBase>>
         \o BigMulFrom(x, m, i + 1, (x[i] * m + carry) \div LimbBase)

\* x * m for a small m
BigMulSmall(x, m) == BigMulFrom(x, m, 1, 0)

\* (x + s) / 2 ** n rounded to the nearest whole number, to the even one when
\* half-way; s stands for a part of the number below its unit (sticky)
RoundShift(x, n, sticky) ==
  LET q == BigShr(x, n)
      up == /\ GuardBit(x, n) = 1
            /\ sticky \/ BitsBelowGuard(x, n) \/ q[1] % 2 = 1
  IN  IF up THEN BigAdd(q, BigOfSmall(1)) ELSE q

\* the double nearest to x (plus a part below the unit when sticky): x with
\* 53 significant binary digits
Round53(x, sticky) ==
  LET bits == BigBits(x)
      n == IF bits > 53 THEN bits - 53 ELSE 0
  IN  BigShl(RoundShift(x, n, sticky), n)

\* a double: neg for the sign, mag for the magnitude in units
Double(neg, mag) == [neg |-> neg, mag |-> mag]

\* a / b of the integers a and b >= 1 (true division, correctly rounded)
TrueDiv(a, b) ==
  LET d == BigDivSmall(BigOfInt(Abs(a)), b)
  IN  Double(a < 0, Round53(d.q, d.r # 0))

\* x - y of two doubles
DoubleSub(x, y) ==
  IF x.neg # y.neg THEN Double(x.neg, Round53(BigAdd(x.mag, y.mag), FALSE))
  ELSE IF BigLess(x.mag, y.mag)
       THEN Double(~x.neg, Round53(BigSub(y.mag, x.mag), FALSE))
       ELSE Double(x.neg, Round53(BigSub(x.mag, y.mag), FALSE))

\* round(x, 1) of a double, in tenths: the decimal nearest to the double,
\* which is below 2 ** 15 tenths
RoundTenths(x) ==
  LET q == RoundShift(BigMulSmall(x.mag, 10), 75, FALSE)
  IN  IF x.neg THEN 0 - q[1] ELSE q[1]

\* round(x, ndigits) of a double in units of 1 / m, m = 10 ** ndigits: the
\* decimal nearest to the double, the even one when half-way; below 2 ** 15
round_double(x, m) ==
  LET q == RoundShift(BigMulSmall(x.mag, m), 75, FALSE)
  IN  IF x.neg THEN 0 - q[1] ELSE q[1]

\* x + y of two doubles; a sum that is zero is -0.0 only for two negatives
DoubleAdd(x, y) ==
  LET mag == IF x.neg = y.neg THEN Round53(BigAdd(x.mag, y.mag), FALSE)
             ELSE IF BigLess(x.mag, y.mag) THEN Round53(BigSub(y.mag, x.mag), FALSE)
             ELSE Round53(BigSub(x.mag, y.mag), FALSE)
  IN  IF x.neg = y.neg THEN Double(x.neg, mag)
      ELSE IF mag = BigZero THEN Double(FALSE, mag)
      ELSE Double(IF BigLess(x.mag, y.mag) THEN y.neg ELSE x.neg, mag)

\* x / n of a double and an int n >= 1 (correctly rounded)
DoubleDiv(x, n) ==
  LET d == BigDivSmall(x.mag, n)
  IN  Double(x.neg, Round53(d.q, d.r # 0))

\* x * m of a double and an int m >= 1 (correctly rounded)
DoubleMul(x, m) == Double(x.neg, Round53(BigMulSmall(x.mag, m), FALSE))

\* ------------------------------------------------------------------------
\* Numbers: the values of the statistics and of the history log
\* ------------------------------------------------------------------------
\* A Python number is an int, the record PyInt(n), or a float, the Double it
\* is. The numbers here are below 2 ** 15 in magnitude, and the floats that
\* are not zero are above 2 ** -21.
PyInt(n) == [int |-> n]

IsPyInt(v) == DOMAIN v = {"int"}

\* float(v)
ToFloat(v) == IF IsPyInt(v) THEN Double(v.int < 0, BigOfInt(Abs(v.int))) ELSE v

\* the float of a decimal with one digit, t tenths: what round(x, 1) returns
FloatOfTenths(t) == TrueDiv(t, 10)

\* v > n for a whole number n
NumAbove(v, n) ==
  IF IsPyInt(v) THEN v.int > n
  ELSE IF v.neg THEN n < 0 /\ BigLess(v.mag, BigOfInt(-n))
  ELSE n < 0 \/ BigLess(BigOfInt(n), v.mag)

\* v < n for a whole number n
NumBelow(v, n) ==
  IF IsPyInt(v) THEN v.int < n
  ELSE IF v.neg THEN n > 0 \/ (n = 0 /\ v.mag # BigZero) \/ (n < 0 /\ BigLess(BigOfInt(-n), v.mag))
  ELSE n > 0 /\ BigLess(v.mag, BigOfInt(n))

\* v >= n for a whole number n
NumAtLeast(v, n) == ~NumBelow(v, n)

\* a + b: an int for two ints, else the sum of the floats
NumAdd(a, b) ==
  IF IsPyInt(a) /\ IsPyInt(b) THEN PyInt(a.int + b.int)
  ELSE DoubleAdd(ToFloat(a), ToFloat(b))

RECURSIVE NumSum(_)
\* sum(xs): the additions from the int 0, left to right
NumSum(xs) ==
  IF xs = << >> THEN PyInt(0)
  ELSE NumAdd(NumSum(SubSeq(xs, 1, Len(xs) - 1)), xs[Len(xs)])

\* round(sum(xs) / len(xs), ndigits) in units of 1 / m, m = 10 ** ndigits
NumMean(xs, m) ==
  LET total == NumSum(xs)
  IN  IF IsPyInt(total) THEN round_div(total.int, Len(xs), m)
      ELSE round_double(DoubleDiv(total, Len(xs)), m)

RECURSIVE DigitCount(_)
\* the number of decimal digits of n >= 0
DigitCount(n) == IF n < 10 THEN 1 ELSE 1 + DigitCount(n \div 10)

\* x without its whole part
BigFrac(x) == [x EXCEPT ![LimbCount] = 0]

RECURSIVE ReprPlaces(_, _, _)
\* the least number of decimal places, from places on, with which a decimal
\* lies in an interval: low is the fraction of the lower end times
\* 10 ** places and width the width of the interval times 10 ** places
ReprPlaces(low, width, places) ==
  IF low = BigZero \/ ~BigLess(BigAdd(low, width), BigOfInt(1)) THEN places
  ELSE ReprPlaces(BigFrac(BigMulSmall(low, 10)), BigMulSmall(width, 10), places + 1)

\* len(repr(x)) of a float: repr gives the shortest decimal that no other
\* double is nearer to, that is the decimal of the fewest places between
\* the middles to the two neighbours of x (the neighbour below a power of two
\* is half as far away), with one place at least
ReprSize(x) ==
  IF x.mag = BigZero THEN (IF x.neg THEN 4 ELSE 3)
  ELSE LET bits == BigBits(x.mag)
           above == BigShl(BigOfSmall(1), bits - 54)
           below == IF x.mag = BigShl(BigOfSmall(1), bits - 1)
                    THEN BigShl(BigOfSmall(1), bits - 55) ELSE above
           low == BigSub(x.mag, below)
           places == ReprPlaces(BigFrac(low), BigAdd(below, above), 0)
           whole == IF places = 0 /\ BigFrac(low) # BigZero
                    THEN low[LimbCount] + 1 ELSE low[LimbCount]
       IN  (IF x.neg THEN 1 ELSE 0) + DigitCount(whole) + 1
             + (IF places = 0 THEN 1 ELSE places)

\* ------------------------------------------------------------------------
\* calculate_aggregate_scores (analyzer/scorer.py lines 163-195)
\* ------------------------------------------------------------------------
\* A score of an aggregate record is a number of tenths: round(x, 1).

RECURSIVE Sum(_)
\* sum() of integers
Sum(xs) == IF xs = << >> THEN 0 ELSE xs[1] + Sum(Tail(xs))

RECURSIVE ScoresFrom(_, _)
\* [n["impact_score"] for n in scored_news_list if n.get("source") == source]
ScoresFrom(scored_news_list, source) ==
  IF scored_news_list = << >> THEN << >>
  ELSE LET n == scored_news_list[1]
           rest == ScoresFrom(Tail(scored_news_list), source)
       IN  IF Get(n, "source", None) = source
           THEN <<n["impact_score"]>> \o rest
           ELSE rest

\* [n["impact_score"] for n in scored_news_list]
AllScores(scored_news_list) ==
  [i \in 1..Len(scored_news_list) |-> scored_news_list[i]["impact_score"]]

\* the record of lines 168-175
ZeroAggregate ==
  [total_score |-> 0, domestic_score |-> 0, foreign_score |-> 0,
   domestic_foreign_gap |-> 0, news_count |-> 0, zero_score_count |-> 0]

\* sum(scores) / len(scores) if scores else 0, lines 180-184
Average(scores) ==
  IF scores = << >> THEN Double(FALSE, BigZero)
  ELSE TrueDiv(Sum(scores), Len(scores))

\* the record of lines 188-195 for the scores of each origin and of all
\* items. An average is sum / count, or 0 for no score; the gap is the
\* difference of the two averages, themselves doubles, rounded. Two averages
\* that are whole numbers are doubles as they are, and so is their
\* difference.
AggregateOf(domestic_scores, foreign_scores, all_scores) ==
  LET dsum == Sum(domestic_scores)
      dlen == IF domestic_scores = << >> THEN 1 ELSE Len(domestic_scores)
      fsum == Sum(foreign_scores)
      flen == IF foreign_scores = << >> THEN 1 ELSE Len(foreign_scores)
  IN  [total_score |-> round_div(Sum(all_scores), Len(all_scores), 10),
       domestic_score |-> round_div(dsum, dlen, 10),
       foreign_score |-> round_div(fsum, flen, 10),
       domestic_foreign_gap |->
         IF dsum % dlen = 0 /\ fsum % flen = 0
         THEN 10 * ((dsum \div dlen) - (fsum \div flen))
         ELSE RoundTenths(DoubleSub(Average(domestic_scores), Average(foreign_scores))),
       news_count |-> Len(all_scores),
       zero_score_count |->
         Cardinality({i \in 1..Len(all_scores) : all_scores[i] = 0})]

\* the averages of an origin taken over all items of the batch
calculate_aggregate_scores_OverAll(scored_news_list) ==
  IF scored_news_list = << >> THEN ZeroAggregate
  ELSE LET all == AllScores(scored_news_list)
           dsum == Sum(ScoresFrom(scored_news_list, "domestic"))
           fsum == Sum(ScoresFrom(scored_news_list, "foreign"))
       IN  [AggregateOf(ScoresFrom(scored_news_list, "domestic"),
                        ScoresFrom(scored_news_list, "foreign"), all)
              EXCEPT !.domestic_score = round_div(dsum, Len(all), 10),
                     !.foreign_score = round_div(fsum, Len(all), 10)]

\* calculate_aggregate_scores(scored_news_list), lines 163-195
calculate_aggregate_scores(scored_news_list) ==
  IF scored_news_list = << >> THEN ZeroAggregate
  ELSE AggregateOf(ScoresFrom(scored_news_list, "domestic"),
                   ScoresFrom(scored_news_list, "foreign"),
                   AllScores(scored_news_list))

\* the places of the items of an origin: n.get("source") == source
PlacesOf(scored_news_list, source) ==
  {i \in 1..Len(scored_news_list) :
     Get(scored_news_list[i], "source", None) = source}

\* what the statements of lines 177-184 raise over the items at the places
\* of one list: n["impact_score"] needs the key (KeyError), and sum() adds
\* the scores to 0, which None does not allow (TypeError)
scores_raise(scored_news_list, places) ==
  IF \E i \in places : ~HasKey(scored_news_list[i], "impact_score")
  THEN "KeyError"
  ELSE IF \E i \in places : IsNull(scored_news_list[i], "impact_score")
       THEN "TypeError"
       ELSE "none"

\* the averages taken without the guards for no score
aggregate_raises_NoGuard(scored_news_list) ==
  LET both == PlacesOf(scored_news_list, "domestic")
                \cup PlacesOf(scored_news_list, "foreign")
  IN  IF scores_raise(scored_news_list, both) # "none"
      THEN scores_raise(scored_news_list, both)
      ELSE IF scores_raise(scored_news_list, DOMAIN scored_news_list) # "none"
      THEN scores_raise(scored_news_list, DOMAIN scored_news_list)
      ELSE IF PlacesOf(scored_news_list, "domestic") = {}
              \/ PlacesOf(scored_news_list, "foreign") = {}
           THEN "ZeroDivisionError"
           ELSE "none"

\* what calculate_aggregate_scores raises, "none" if it returns. The lists
\* of the two origins are made (lines 177-178) and summed (lines 180-181)
\* before the list of all items is (lines 183-184).
aggregate_raises(scored_news_list) ==
  LET domestic == PlacesOf(scored_news_list, "domestic")
      foreign == PlacesOf(scored_news_list, "foreign")
      KeyMissing(places) ==
        \E i \in places : ~HasKey(scored_news_list[i], "impact_score")
  IN  IF scored_news_list = << >> THEN "none"
      ELSE IF KeyMissing(domestic \cup foreign) THEN "KeyError"
      ELSE IF scores_raise(scored_news_list, domestic) # "none" THEN "TypeError"
      ELSE IF scores_raise(scored_news_list, foreign) # "none" THEN "TypeError"
      ELSE scores_raise(scored_news_list, DOMAIN scored_news_list)

\* ------------------------------------------------------------------------
\* alert/detector.py
\* ------------------------------------------------------------------------
\* config.py lines 31-33
ALERT_DAILY_CHANGE == 3
ALERT_MA_WINDOW == 3
ALERT_DOMESTIC_FOREIGN_GAP == 5

\* the severity threshold of line 40
DAILY_CHANGE_WARNING == 5

\* the texts of the messages, lines 37, 41, 55, 61, 71 and 77
direction_up ==
  <<19978, 26119>>
direction_down ==
  <<19979, 33853>>
daily_head ==
  <<32207, 21512, 12473, 12467, 12450, 12364, 21069, 26085, 27604, 32>>
daily_mid ==
  <<32, 22793, 21270, 65288>>
daily_tail ==
  <<20670, 21521, 12408, 12398, 22793, 21270, 65289>>
ma_head ==
  <<26085, 31227, 21205, 24179, 22343, 12364>>
ma_plus ==
  <<12503, 12521, 12473, 22287, 12395, 36578, 25563, 65288, 24066, 22580,
    12475, 12531, 12481, 12513, 12531, 12488, 25913, 21892, 12398, 21487,
    33021, 24615, 65289>>
ma_minus ==
  <<12510, 12452, 12490, 12473, 22287, 12395, 36578, 25563, 65288, 24066,
    22580, 12475, 12531, 12481, 12513, 12531, 12488, 24746, 21270, 12398,
    21487, 33021, 24615, 65289>>
gap_head ==
  <<22269, 20869, 12473, 12467, 12450, 12364, 28023, 22806, 12424, 12426,
    32>>
gap_high ==
  <<32, 39640, 12356, 65288, 22269, 20869, 24066, 22580, 12364, 28023, 22806,
    12424, 12426, 27005, 35251, 30340, 65289>>
gap_low ==
  <<32, 20302, 12356, 65288, 22269, 20869, 24066, 22580, 12364, 28023, 22806,
    12424, 12426, 24754, 35251, 30340, 65289>>

Alert(type, severity, message) ==
  [type |-> type, severity |-> severity, message |-> message]

\* [h.get("total_score", 0) for h in records] as doubles
TotalScores(records) ==
  [i \in 1..Len(records) |-> Dbl(Get(records[i], "total_score", 0))]

\* rule 1, lines 31-42
daily_change_alerts(history, current_scores) ==
  IF Len(history) >= 1
  THEN LET prev_score == Get(history[Len(history)], "total_score", 0)
           curr_score == Get(current_scores, "total_score", 0)
           daily_change == FSub(Dbl(curr_score), Dbl(prev_score))
           direction == IF FSign(daily_change) > 0 THEN direction_up
                        ELSE direction_down
       IN  IF FGE(FAbs(daily_change), ALERT_DAILY_CHANGE)
           THEN <<Alert("daily_change",
                        IF FGE(FAbs(daily_change), DAILY_CHANGE_WARNING)
                        THEN "warning" ELSE "info",
                        daily_head \o FormatSigned1(daily_change.t) \o daily_mid
                          \o direction \o daily_tail)>>
           ELSE << >>
  ELSE << >>

\* rule 2, lines 45-62: ma and prev_ma are sums divided by 3 and have the
\* signs of the sums
ma_reversal_alerts(history) ==
  LET n == Len(history)
      W == ALERT_MA_WINDOW
  IN  IF n >= W /\ n > W
      THEN LET ma == FSum(TotalScores(SubSeq(history, n - W + 1, n)))
               prev_ma == FSum(TotalScores(SubSeq(history, n - W, n - 1)))
           IN  IF FSign(ma) >= 0 /\ FSign(prev_ma) < 0
               THEN <<Alert("ma_reversal", "info", Digits(W) \o ma_head \o ma_plus)>>
               ELSE IF FSign(ma) < 0 /\ FSign(prev_ma) >= 0
               THEN <<Alert("ma_reversal", "warning", Digits(W) \o ma_head \o ma_minus)>>
               ELSE << >>
      ELSE << >>

\* rule 3 firing only beyond the threshold
gap_alerts_Beyond(current_scores) ==
  LET gap == Get(current_scores, "domestic_foreign_gap", 0)
  IN  IF ~FGE(Dbl(ALERT_DOMESTIC_FOREIGN_GAP * 10), 0) \/ Abs(gap) > ALERT_DOMESTIC_FOREIGN_GAP * 10
      THEN IF gap > 0
           THEN <<Alert("domestic_foreign_gap", "info",
                        gap_head \o FormatSigned1(gap) \o gap_high)>>
           ELSE <<Alert("domestic_foreign_gap", "warning",
                        gap_head \o Format1(gap) \o gap_low)>>
      ELSE << >>

\* rule 3, lines 65-78
gap_alerts(current_scores) ==
  LET gap == Get(current_scores, "domestic_foreign_gap", 0)
  IN  IF FGE(FAbs(Dbl(gap)), ALERT_DOMESTIC_FOREIGN_GAP)
      THEN IF gap > 0
           THEN <<Alert("domestic_foreign_gap", "info",
                        gap_head \o FormatSigned1(gap) \o gap_high)>>
           ELSE <<Alert("domestic_foreign_gap", "warning",
                        gap_head \o Format1(gap) \o gap_low)>>
      ELSE << >>

\* detect_alerts(current_scores), lines 19-80
detect_alerts(history, current_scores) ==
  daily_change_alerts(history, current_scores) \o ma_reversal_alerts(history)
    \o gap_alerts(current_scores)

\* add_daily_score that skips a record equal to the last one
add_daily_score_Dedup(history, aggregate_scores) ==
  IF history # << >> /\ history[Len(history)] = aggregate_scores THEN history
  ELSE Append(history, aggregate_scores)

\* add_daily_score(aggregate_scores), lines 15-17
add_daily_score(history, aggregate_scores) == Append(history, aggregate_scores)

\* ------------------------------------------------------------------------
\* analyzer/trigger_detector.py
\* ------------------------------------------------------------------------
\* Trigger(id, name, message), fired = False (lines 13-19)
Trigger(id, name, message) ==
  [id |-> id, name |-> name, message |-> message, fired |-> FALSE]

\* lines 49-53
trigger_a ==
  Trigger("A",
          <<26448, 26009, 20986, 25539, 12356, 12398, 20806, 20505>>,
          <<24066, 22580, 12364, 35413, 20385, 21487, 33021, 12394, 26448,
          26009, 12395, 21453, 24540, 12375, 22987, 12417, 12390, 12356,
          12427, 21487, 33021, 24615, 12364, 12354, 12426, 12414, 12377,
          12290>>)

\* lines 59-63
trigger_b ==
  Trigger("B",
          <<12494, 12452, 12474, 20778, 21218, 29366, 24907>>,
          <<21028, 26029, 26448, 26009, 12392, 12375, 12390, 20351, 12356,
          12395, 12367, 12356, 12491, 12517, 12540, 12473, 12364, 22810,
          12356, 29366, 24907, 12364, 32154, 12356, 12390, 12356, 12414,
          12377, 12290>>)

\* lines 69-73
trigger_c ==
  Trigger("C",
          <<35413, 20385, 12398, 20559, 12426>>,
          <<24066, 22580, 12398, 21463, 12369, 27490, 12417, 26041, 12364,
          19968, 26041, 21521, 12395, 20559, 12387, 12390, 12356, 12427,
          21487, 33021, 24615, 12364, 12354, 12426, 12414, 12377, 12290>>)

\* lines 79-83
trigger_d ==
  Trigger("D",
          <<12510, 12463, 12525, 21069, 25552, 22793, 21270>>,
          <<26666, 20385, 20197, 22806, 12398, 21069, 25552, 26465, 20214,
          65288, 37329, 21033, 12539, 28858, 26367, 12394, 12393, 65289,
          12408, 12398, 27880, 30446, 12364, 39640, 12414, 12387, 12390,
          12356, 12414, 12377, 12290>>)

\* trigger.fired = True; triggers.append(trigger)
Fired(trigger) == <<[trigger EXCEPT !.fired = TRUE]>>

\* detect(...) with rule B firing on either of its two conditions
detect_EitherB(zero_ratio, plus2_ratio, minus2_ratio, macro_ratio, consecutive_high_zero_days) ==
  (IF NumBelow(zero_ratio, 50) /\ (NumAbove(plus2_ratio, 30) \/ NumAbove(minus2_ratio, 30))
   THEN Fired(trigger_a) ELSE << >>)
    \o (IF NumAbove(zero_ratio, 80) \/ consecutive_high_zero_days >= 2
        THEN Fired(trigger_b) ELSE << >>)
    \o (IF NumAbove(plus2_ratio, 50) \/ NumAbove(minus2_ratio, 50)
        THEN Fired(trigger_c) ELSE << >>)
    \o (IF NumAbove(macro_ratio, 30) THEN Fired(trigger_d) ELSE << >>)

\* TriggerDetector.detect(...), lines 25-88
detect(zero_ratio, plus2_ratio, minus2_ratio, macro_ratio, consecutive_high_zero_days) ==
  (IF NumBelow(zero_ratio, 50) /\ (NumAbove(plus2_ratio, 30) \/ NumAbove(minus2_ratio, 30))
   THEN Fired(trigger_a) ELSE << >>)
    \o (IF NumAbove(zero_ratio, 80) /\ consecutive_high_zero_days >= 2
        THEN Fired(trigger_b) ELSE << >>)
    \o (IF NumAbove(plus2_ratio, 50) \/ NumAbove(minus2_ratio, 50)
        THEN Fired(trigger_c) ELSE << >>)
    \o (IF NumAbove(macro_ratio, 30) THEN Fired(trigger_d) ELSE << >>)

\* ------------------------------------------------------------------------
\* data/history.py
\* ------------------------------------------------------------------------
\* A date is the ordinal of its calendar day: "%Y-%m-%d" strings of two dates
\* compare as their days do, and now - timedelta(days=n) is n days earlier.
\* An entry of the log is a dict; the stats of a call are the dict of the six
\* value fields.

\* timedelta(days=30), line 78
RETENTION_DAYS == 30

\* The file history.json: empty says that the file is missing or has no
\* byte, doc is the JSON document that starts at offset 0 and tail the number
\* of bytes that follow the document. The file holds a readable log iff the
\* document fills it: what follows a shorter document is the end of a longer
\* one, which is not white space.
NoFile == [empty |-> TRUE, doc |-> << >>, tail |-> 0]

\* the bytes json.dump writes for a value (line 38): a date as the quoted
\* text "YYYY-MM-DD", an int as its decimal digits with its sign, a float
\* as its repr
ValueSize(key, value) ==
  IF key = "date" THEN 12
  ELSE IF ~IsPyInt(value) THEN ReprSize(value)
  ELSE IF value.int < 0 THEN 1 + DigitCount(0 - value.int)
  ELSE DigitCount(value.int)

\* the line of the field key of an entry with indent=2: four spaces, the
\* quoted key, a colon and a space, the value, and the end of the line
FieldSize(entry, key) ==
  4 + (Len(key) + 2) + 2 + ValueSize(key, entry[key]) + 1

RECURSIVE FieldsSize(_, _)
\* the lines of the fields keys of an entry
FieldsSize(entry, keys) ==
  IF keys = {} THEN 0
  ELSE LET key == CHOOSE k \in keys : TRUE
       IN  FieldSize(entry, key) + FieldsSize(entry, keys \ {key})

\* the keys of an entry add_daily_record makes (lines 67-75)
RecordKeys ==
  {"date", "total_score", "zero_ratio", "plus2_ratio", "minus2_ratio",
   "news_count", "macro_ratio"}

\* an entry of the list: '  {', its fields separated by commas, '  }'; an
\* object without fields is '  {}'
EntrySize(entry) ==
  IF DOMAIN entry = {} THEN 4
  ELSE IF DOMAIN entry = RecordKeys
  THEN 4 + FieldSize(entry, "date") + FieldSize(entry, "total_score")
         + FieldSize(entry, "zero_ratio") + FieldSize(entry, "plus2_ratio")
         + FieldSize(entry, "minus2_ratio") + FieldSize(entry, "news_count")
         + FieldSize(entry, "macro_ratio") + 6 + 3
  ELSE 4 + FieldsSize(entry, DOMAIN entry) + (Cardinality(DOMAIN entry) - 1) + 3

RECURSIVE EntriesSize(_, _)
\* the entries of the list from place i on, each followed by its end of line
EntriesSize(doc, i) ==
  IF i > Len(doc) THEN 0 ELSE EntrySize(doc[i]) + 1 + EntriesSize(doc, i + 1)

\* the bytes of json.dump(history, f, ensure_ascii=False, indent=2), line
\* 38: '[]' for no entry, otherwise the brackets on lines of their own and
\* a comma between two entries
DocSize(doc) ==
  IF doc = << >> THEN 2
  ELSE 2 + EntriesSize(doc, 1) + (Len(doc) - 1) + 1

\* the length of the file in bytes
FileSize(f) == IF f.empty THEN 0 ELSE DocSize(f.doc) + f.tail

Readable(f) == ~f.empty /\ f.tail = 0

\* _load, lines 28-33: a missing file leaves [], an empty or damaged file
\* raises JSONDecodeError and gives []
load(f) == IF Readable(f) THEN f.doc ELSE << >>

\* open(HISTORY_FILE, "w"), line 37: the file is truncated when it is opened
save_open(f) == [empty |-> TRUE, doc |-> << >>, tail |-> 0]

\* json.dump and the close of the with block, lines 37-38: the document is
\* written from offset 0 of the writer's own file position; what another
\* writer put beyond its end stays in the file
save_write(f, history) ==
  [empty |-> FALSE, doc |-> history,
   tail |-> IF f.empty THEN 0 ELSE Max2(FileSize(f), DocSize(history)) - DocSize(history)]

\* _save by one process alone, lines 35-38
save(f, history) == save_write(save_open(f), history)

\* record.get("date") == today, line 54
IsToday(record, today) == "date" \in DOMAIN record /\ record["date"] = today

\* some record of the history is dated today
HasToday(history, today) ==
  \E i \in 1..Len(history) : IsToday(history[i], today)

\* r.get("date", "") >= cutoff, line 79 ("" is below every date)
NotOlder(record, cutoff) == "date" \in DOMAIN record /\ record["date"] >= cutoff

\* the calendar day of a later datetime.now() of a call whose first one gave
\* day: the same day, or the next one when midnight falls between the two
Later(day) == {day, day + 1}

\* add_daily_record without the update of an entry of today: always appends
add_daily_record_NoUpdate(history, today, now, stats) ==
  SelectSeq(Append(history, Merge("date" :> today, stats)),
            LAMBDA r : NotOlder(r, now - RETENTION_DAYS))

\* the history after add_daily_record(...), lines 50-79, today being the day
\* of datetime.now() at line 50 and now the day of datetime.now() at line
\* 78: the first record of today is updated and the method returns (lines
\* 53-64); otherwise an entry dated today is appended and the entries older
\* than the cutoff, 30 days before now, are dropped (lines 67-79)
add_daily_record(history, today, now, stats) ==
  IF HasToday(history, today)
  THEN LET i == CHOOSE j \in 1..Len(history) :
                  /\ IsToday(history[j], today)
                  /\ \A h \in 1..(j - 1) : ~IsToday(history[h], today)
       IN  [history EXCEPT ![i] = Merge(@, stats)]
  ELSE SelectSeq(Append(history, Merge("date" :> today, stats)),
                 LAMBDA r : NotOlder(r, now - RETENTION_DAYS))

\* ------------------------------------------------------------------------
\* history.json as a HistoryManager finds it (data/history.py lines 22-33)
\* ------------------------------------------------------------------------
\* What the path holds when a HistoryManager is constructed; kind is
\*   "missing"     no file
\*   "directory"   a directory: open raises IsADirectoryError
\*   "unreadable"  a file without read permission: open(.., "r") raises
\*                 PermissionError, open(.., "w") succeeds
\*   "not_utf8"    bytes that are not UTF-8: the read raises UnicodeDecodeError
\*   "not_json"    text that is no JSON document (empty, cut off, with a tail)
\*   "scalar"      the JSON document null, true or a number
\*   "text"        a JSON string of size characters
\*   "object"      a JSON object of size keys
\*   "items"       a JSON list of size elements that are not objects
\*   "entries"     a JSON list of objects, doc (what _save writes)
\* The value of self.history has the same shape, with one of the last five
\* kinds.
Content(kind, size, doc) == [kind |-> kind, size |-> size, doc |-> doc]

\* self.history = [], line 23
EmptyHistory == Content("entries", 0, << >>)

\* the history a list of entries is
Entries(doc) == Content("entries", Len(doc), doc)

\* the exceptions the except clause of line 32 names: JSONDecodeError, and
\* IOError with its subclasses
CaughtOnLoad == {"JSONDecodeError", "IsADirectoryError", "PermissionError"}

\* what lines 28-31 raise, "none" if nothing
load_raises(content) ==
  CASE content.kind = "directory" -> "IsADirectoryError"
    [] content.kind = "unreadable" -> "PermissionError"
    [] content.kind = "not_utf8" -> "UnicodeDecodeError"
    [] content.kind = "not_json" -> "JSONDecodeError"
    [] OTHER -> "none"

\* HistoryManager(), lines 22-33: the exception that leaves the constructor
\* ("none" if it returns) and self.history
construct(content) ==
  IF content.kind = "missing" THEN [raised |-> "none", history |-> EmptyHistory]
  ELSE IF load_raises(content) \in CaughtOnLoad
       THEN [raised |-> "none", history |-> EmptyHistory]
  ELSE IF load_raises(content) # "none"
       THEN [raised |-> load_raises(content), history |-> EmptyHistory]
  ELSE [raised |-> "none", history |-> content]

\* for record in self.history ... record.get(..), lines 53-54, 89-90 and
\* 136-139: a scalar is not iterable, and the characters of a string, the keys
\* of an object and the elements that are not objects have no get
iterate_raises(h) ==
  CASE h.kind = "scalar" -> "TypeError"
    [] h.kind \in {"text", "object", "items"} /\ h.size > 0 -> "AttributeError"
    [] OTHER -> "none"

\* what a query raises (get_last_n_days, get_7day_comparison,
\* get_consecutive_high_zero_days), "none" if it returns
query_raises(h) == iterate_raises(h)

\* add_daily_record on any self.history, lines 50-81: the exception raised
\* ("none" if it returns), self.history afterwards and whether _save wrote
\* the file. self.history.append (line 67) exists for a list only; _save
\* cannot open a directory for writing.
store_add(content, h, today, now, stats) ==
  IF iterate_raises(h) # "none"
  THEN [raised |-> iterate_raises(h), history |-> h, written |-> FALSE]
  ELSE IF h.kind # "entries"
  THEN [raised |-> "AttributeError", history |-> h, written |-> FALSE]
  ELSE LET after == Entries(add_daily_record(h.doc, today, now, stats))
       IN  IF content.kind = "directory"
           THEN [raised |-> "IsADirectoryError", history |-> after, written |-> FALSE]
           ELSE [raised |-> "none", history |-> after, written |-> TRUE]

\* the path after _save has written self.history, lines 37-38: open(.., "w")
\* keeps the permissions of a file that exists, so a file without read
\* permission holds the new log and is still unreadable
store_content(content, history) ==
  IF content.kind = "unreadable"
  THEN Content("unreadable", history.size, history.doc)
  ELSE history

\* ------------------------------------------------------------------------
\* The queries of a HistoryManager (data/history.py lines 83-146)
\* ------------------------------------------------------------------------
\* An average rounded to d decimals is a number of 10 ** -d.

\* get_last_n_days(n), lines 85-91: cutoff <= r.get("date", "") < today,
\* today being the day of datetime.now() at line 85 and the cutoff n days
\* before now, the day of datetime.now() at line 86
get_last_n_days(history, today, now, n) ==
  SelectSeq(history, LAMBDA r : NotOlder(r, now - n) /\ r["date"] < today)

\* [r.get(field, 0) for r in records]
FieldOf(records, field) ==
  [i \in 1..Len(records) |-> Get(records[i], field, PyInt(0))]

\* get_7day_comparison(current), lines 103-128: avg_total_score in
\* hundredths, the other averages in tenths
get_7day_comparison(history, today, now, current) ==
  LET past_records == get_last_n_days(history, today, now, 7)
      n == Len(past_records)
  IN  IF past_records = << >>
      THEN [has_history |-> FALSE, days_count |-> 0]
      ELSE [has_history |-> TRUE,
            days_count |-> n,
            avg_total_score |-> NumMean(FieldOf(past_records, "total_score"), 100),
            avg_zero_ratio |-> NumMean(FieldOf(past_records, "zero_ratio"), 10),
            avg_plus2_ratio |-> NumMean(FieldOf(past_records, "plus2_ratio"), 10),
            avg_minus2_ratio |-> NumMean(FieldOf(past_records, "minus2_ratio"), 10),
            current_total_score |-> Get(current, "total_score", PyInt(0)),
            current_zero_ratio |-> Get(current, "zero_ratio", PyInt(0)),
            current_plus2_ratio |-> Get(current, "plus2_ratio", PyInt(0)),
            current_minus2_ratio |-> Get(current, "minus2_ratio", PyInt(0))]

\* x.get("date", "") of a is below that of b ("" is below every date)
DateBelow(a, b) ==
  /\ "date" \in DOMAIN b
  /\ "date" \in DOMAIN a => a["date"] < b["date"]

RECURSIVE InsertDescending(_, _)
\* record put behind the entries of a descending list that are not below it
InsertDescending(record, sorted) ==
  IF sorted = << >> THEN <<record>>
  ELSE IF DateBelow(sorted[1], record) THEN <<record>> \o sorted
  ELSE <<sorted[1]>> \o InsertDescending(record, Tail(sorted))

RECURSIVE sorted_history(_)
\* sorted(self.history, key=lambda x: x.get("date", ""), reverse=True),
\* line 136: entries of one date keep their order
sorted_history(history) ==
  IF history = << >> THEN << >>
  ELSE InsertDescending(history[Len(history)],
                        sorted_history(SubSeq(history, 1, Len(history) - 1)))

RECURSIVE CountRun_AtLeast(_, _)
\* the loop counting the entries at the threshold too
CountRun_AtLeast(records, today) ==
  IF records = << >> THEN 0
  ELSE IF IsToday(records[1], today) THEN CountRun_AtLeast(Tail(records), today)
  ELSE IF NumAtLeast(Get(records[1], "zero_ratio", PyInt(0)), 80)
       THEN 1 + CountRun_AtLeast(Tail(records), today)
  ELSE 0

RECURSIVE CountRun(_, _)
\* the loop of lines 138-144: today's entry is passed over, an entry above
\* 80 counts, any other entry ends the loop
CountRun(records, today) ==
  IF records = << >> THEN 0
  ELSE IF IsToday(records[1], today) THEN CountRun(Tail(records), today)
  ELSE IF NumAbove(Get(records[1], "zero_ratio", PyInt(0)), 80)
       THEN 1 + CountRun(Tail(records), today)
  ELSE 0

\* get_consecutive_high_zero_days(), lines 130-146
get_consecutive_high_zero_days(history, today) ==
  CountRun(sorted_history(history), today)

\* ------------------------------------------------------------------------
\* analyzer/llm_classifier.py: GeminiClassifier, classify_with_llm
\* ------------------------------------------------------------------------
\* In the dicts of this section (an item, the model's answer, an entry of the
\* cache, a classification) a key whose value is None holds no value and is
\* a member of the set under "nulls" (IsNull).

\* the keys of d whose value is None
Nulls(d) == IF "nulls" \in DOMAIN d THEN d["nulls"] ELSE {}

\* the dict of the values d holds, with the keys of nulls set to None
WithNulls(d, nulls) ==
  LET values == [k \in (DOMAIN d) \ ({"nulls"} \cup nulls) |-> d[k]]
  IN  IF nulls = {} THEN values ELSE values @@ ("nulls" :> nulls)

\* d.update(u): the keys of u take u's values, None included
Update(d, u) ==
  LET set == (DOMAIN u \ {"nulls"}) \cup Nulls(u)
  IN  WithNulls(Merge([k \in (DOMAIN d) \ {"nulls"} |-> d[k]],
                      [k \in (DOMAIN u) \ {"nulls"} |-> u[k]]),
                (Nulls(d) \ set) \cup Nulls(u))

\* the code points str.split() separates words at
Whitespace ==
  (9..13) \cup (28..32) \cup {133, 160, 5760} \cup (8192..8202)
    \cup {8232, 8233, 8239, 8287, 12288}

\* text.split(): the words of text, each from a place that begins one (no
\* whitespace, and whitespace or nothing before it) to the last place before
\* the next whitespace
Split(text) ==
  LET Begins(i) == text[i] \notin Whitespace /\ (i = 1 \/ text[i - 1] \in Whitespace)
      Ends(i, j) == /\ \A k \in i..j : text[k] \notin Whitespace
                    /\ j = Len(text) \/ text[j + 1] \in Whitespace
  IN  {SubSeq(text, i, CHOOSE j \in i..Len(text) : Ends(i, j)) :
         i \in {h \in 1..Len(text) : Begins(h)}}

\* set(text.lower().split()), lines 150, 155 and 221
Words(text) == Split(Lower(text))

\* a < b for two texts: the order of their first different code points, a
\* text coming before the texts it begins
TextLess(a, b) ==
  \E i \in 1..Len(b) :
    /\ \A j \in 1..(i - 1) : j <= Len(a) /\ a[j] = b[j]
    /\ i > Len(a) \/ (i - 1 < Len(a) /\ a[i] < b[i])

RECURSIVE Sorted(_)
\* sorted(words) of a set of texts
Sorted(words) ==
  IF words = {} THEN << >>
  ELSE LET first == CHOOSE w \in words : \A v \in words : v = w \/ TextLess(w, v)
       IN  <<first>> \o Sorted(words \ {first})

\* _compute_content_hash(text), lines 147-151: the digest of the first 20 of
\* the sorted words joined by blanks. The digest stands for that list of
\* words: no word holds a blank, so two lists join to the same text only if
\* they are equal, and two digests of 12 hexadecimal digits that collide for
\* different texts are left out.
compute_content_hash(text) == Take(Sorted(Words(text)), 20)

\* list(set(news_text.lower().split()))[:30], line 221: a set has no order
\* the program fixes, so of more than 30 words any 30 may be kept
CachedWords(news_text) ==
  IF Cardinality(Words(news_text)) <= 30 THEN {Words(news_text)}
  ELSE {kept \in SUBSET Words(news_text) : Cardinality(kept) = 30}

\* the Jaccard test of line 166 on two sets of words
Jaccard(new_words, cached_words) ==
  LET intersection == Cardinality(new_words \cap cached_words)
      union == Cardinality(new_words \cup cached_words)
  IN  union > 0 /\ 5 * intersection >= 3 * union

\* _is_similar(text), lines 153-169: the first entry of seen_hashes, in the
\* order the keys were inserted, whose words are similar; None without one.
\* seen_hashes is the sequence of its pairs [key, entry].
is_similar(seen, text) ==
  LET hits == {i \in 1..Len(seen) :
                 /\ seen[i].entry["words"] # {}
                 /\ Jaccard(Words(text), seen[i].entry["words"])}
  IN  IF hits = {} THEN None
      ELSE seen[CHOOSE i \in hits : \A j \in hits : i <= j].entry

\* self.seen_hashes[content_hash] = entry, line 209: an existing key keeps
\* its place, a new key goes to the end
PutEntry(seen, content_hash, entry) ==
  IF \E i \in 1..Len(seen) : seen[i].key = content_hash
  THEN [i \in 1..Len(seen) |->
          IF seen[i].key = content_hash THEN [key |-> content_hash, entry |-> entry]
          ELSE seen[i]]
  ELSE Append(seen, [key |-> content_hash, entry |-> entry])

\* '[類似記事] ', line 185
SimilarPrefix == <<91, 39006, 20284, 35352, 20107, 93, 32>>
\* 'LLM分類', line 231
LLMReason == <<76, 76, 77, 20998, 39006>>
\* 'LLMエラー: ', line 248
LLMErrorPrefix == <<76, 76, 77, 12456, 12521, 12540, 58, 32>>
\* 'API呼び出しに失敗', line 251
CallFailed == <<65, 80, 73, 21628, 12403, 20986, 12375, 12395, 22833, 25943>>
\* str(None)
NoneText == <<78, 111, 110, 101>>
\* str(e)[:30] of the TypeError of min(10, x) for an x that is None, a str
\* or a list, lines 227-230
NotSupported == <<39, 60, 39, 32, 110, 111, 116, 32, 115, 117, 112, 112, 111, 114, 116, 101, 100, 32, 98, 101, 116, 119, 101, 101, 110, 32, 105, 110, 115, 116>>

\* the keys of the model's answer the code reads
ResultKeys ==
  {"category", "sub_category", "impact_score", "market_impact", "time_horizon",
   "confidence", "reason", "positive_factors", "negative_factors",
   "uncertainty_factors", "keywords"}

\* the second argument of result.get(key, ..), lines 210-220 and 225-235
\* (sub_category has none, market_impact has the value of impact_score)
ResultDefault(key, reason) ==
  CASE key = "category" -> "market"
    [] key = "impact_score" -> PyInt(0)
    [] key = "time_horizon" -> "medium"
    [] key = "confidence" -> PyInt(3)
    [] key = "reason" -> reason
    [] OTHER -> << >>

\* result.get(key, ..) is None
ResultIsNull(result, key) ==
  IF HasKey(result, key) THEN IsNull(result, key)
  ELSE \/ key = "sub_category"
       \/ key = "market_impact" /\ IsNull(result, "impact_score")

\* result.get(key, ..) when it is not None
ResultValue(result, key, reason) ==
  IF key \in DOMAIN result THEN result[key]
  ELSE IF key = "market_impact" THEN Get(result, "impact_score", PyInt(0))
  ELSE ResultDefault(key, reason)

\* the eleven values read from the model's answer, reason being the default
\* of the key "reason"
ReadResult(result, reason) ==
  LET nulls == {k \in ResultKeys : ResultIsNull(result, k)}
  IN  WithNulls([k \in ResultKeys \ nulls |-> ResultValue(result, k, reason)], nulls)

\* the classification of a similar cached article, lines 178-191
similar_result(similar, content_hash) ==
  LET reason == IF IsNull(similar, "reason") THEN NoneText ELSE similar["reason"]
  IN  Update(WithNulls([k \in ResultKeys \ Nulls(similar) |-> similar[k]],
                       Nulls(similar)),
             "reason" :> (SimilarPrefix \o reason) @@ "content_hash" :> content_hash)

\* the fallback of lines 239-254 for the exception text message
fallback_result(message, content_hash) ==
  [category |-> "market", impact_score |-> PyInt(0), market_impact |-> PyInt(0),
   time_horizon |-> "medium", confidence |-> PyInt(1),
   reason |-> LLMErrorPrefix \o Take(message, 30),
   positive_factors |-> << >>, negative_factors |-> << >>,
   uncertainty_factors |-> <<CallFailed>>, keywords |-> << >>,
   content_hash |-> content_hash, nulls |-> {"sub_category"}]

\* the entry stored for the model's answer, lines 209-222, words being the
\* words kept
cache_entry(result, words) == Update(ReadResult(result, << >>), "words" :> words)

\* The values of the keys impact_score, market_impact and confidence of the
\* model's answer, of a cache entry and of a classification are the Python
\* values json.loads gives: an int PyInt(n), a float (a Double), a bool
\* PyBool(b), a str PyStr(s) of code points and a list PyList(l) of such
\* values; a value None is a null of the dict.
PyBool(b) == [bool |-> b]
PyStr(s) == [str |-> s]
PyList(l) == [list |-> l]

\* x is an int, a float or a bool: the values that < and > compare with an
\* int; for any other value the comparison raises TypeError
IsNumber(x) == DOMAIN x \in {{"int"}, {"neg", "mag"}, {"bool"}}

\* the number a comparison takes x for: True is 1 and False is 0
NumberOf(x) == IF DOMAIN x = {"bool"} THEN PyInt(IF x.bool THEN 1 ELSE 0) ELSE x

\* max(low, min(high, x)) for a number x: min gives x when x < high and
\* high otherwise, max gives that value when it is above low and low
\* otherwise, so a float or a bool inside the range is returned as it is
Within(low, high, x) ==
  LET least == IF NumBelow(NumberOf(x), high) THEN x ELSE PyInt(high)
  IN  IF NumAbove(NumberOf(least), low) THEN least ELSE PyInt(low)

\* the three values lines 227-230 compare with numbers
Compared == {"impact_score", "market_impact", "confidence"}

\* lines 227-230 raise TypeError for the model's answer: one of the three
\* compared values is None or is not a number
ComparisonRaises(result) ==
  LET read == ReadResult(result, LLMReason)
  IN  \E k \in Compared : k \in Nulls(read) \/ ~IsNumber(read[k])

\* the classification made from the model's answer, lines 224-237, when
\* the three compared values are numbers
fresh_result(result, content_hash) ==
  LET read == ReadResult(result, LLMReason)
  IN  Update(read,
             "impact_score" :> Within(-10, 10, read["impact_score"])
               @@ "market_impact" :> Within(-10, 10, read["market_impact"])
               @@ "confidence" :> Within(1, 5, read["confidence"])
               @@ "content_hash" :> content_hash)

\* classify_single(news_text), lines 171-254, on the cache seen, with the
\* outcome `answer` of lines 195-206 (the call of the model and the parsing
\* of its reply: ok with the parsed dict, or not ok with the text of the
\* exception) and the words kept for the cache: the classification and the
\* cache afterwards. The entry is stored with the values as the model gave
\* them before the values are compared, so it stays when the comparison
\* raises and the fallback of the except clause answers.
classify_single(seen, news_text, answer, words) ==
  LET content_hash == compute_content_hash(news_text)
      similar == is_similar(seen, news_text)
  IN  IF similar # None THEN <<similar_result(similar, content_hash), seen>>
      ELSE IF ~answer.ok THEN <<fallback_result(answer.message, content_hash), seen>>
      ELSE LET stored == PutEntry(seen, content_hash, cache_entry(answer.result, words))
           IN  IF ComparisonRaises(answer.result)
               THEN <<fallback_result(NotSupported, content_hash), stored>>
               ELSE <<fresh_result(answer.result, content_hash), stored>>

\* the item classify_batch returns for news, lines 268-283: the copy of the
\* caller's item updated with the twelve fields, reason as score_reason
llm_item(news, classification) ==
  LET fields == (DOMAIN classification) \ {"nulls", "reason"}
      reason == IF "reason" \in DOMAIN classification THEN {"score_reason"} ELSE {}
      renamed == [k \in fields \cup reason |->
                    IF k = "score_reason" THEN classification["reason"]
                    ELSE classification[k]]
      nulls == {IF k = "reason" THEN "score_reason" ELSE k : k \in Nulls(classification)}
  IN  Update(news, WithNulls(renamed, nulls))

\* news.get("text", news.get("title", "")) is None, line 262
TextIsNull(news) ==
  IF HasKey(news, "text") THEN IsNull(news, "text") ELSE IsNull(news, "title")

\* news.get("text", news.get("title", "")) when it is not None
TextOf(news) == Get(news, "text", Get(news, "title", << >>))

RECURSIVE llm_classify_batch(_, _, _, _)
\* GeminiClassifier.classify_batch(news_list), lines 256-285, with the
\* outcomes of the model's calls and the words kept, in the order of the
\* items: the exception that leaves it ("none" if it returns), the list
\* returned and the cache afterwards. A text that is None has no lower()
\* (line 150, outside the try of classify_single).
llm_classify_batch(seen, news_list, answers, words) ==
  IF news_list = << >> THEN [raised |-> "none", list |-> << >>, seen |-> seen]
  ELSE IF TextIsNull(Head(news_list))
  THEN [raised |-> "AttributeError", list |-> << >>, seen |-> seen]
  ELSE LET news == Head(news_list)
           one == classify_single(seen, TextOf(news), Head(answers), Head(words))
           rest == llm_classify_batch(one[2], Tail(news_list), Tail(answers), Tail(words))
       IN  [raised |-> rest.raised,
            list |-> <<llm_item(news, one[1])>> \o rest.list,
            seen |-> rest.seen]

\* classify_with_llm(news_list), lines 295-304: constructible is whether
\* GeminiClassifier(api_key) returns (library present and key set); any
\* exception gives the caller's list back
classify_with_llm(news_list, constructible, answers, words) ==
  LET batch == llm_classify_batch(<< >>, news_list, answers, words)
  IN  IF constructible /\ batch.raised = "none" THEN batch.list ELSE news_list

\* ------------------------------------------------------------------------
\* Inputs
\* ------------------------------------------------------------------------
\* pieces of text the input texts are concatenated from
Fragments ==
  << <<26666, 20385, 12364>>,  \* filler, no keyword of any table
     <<22823, 24133, 19978, 26119>>,  \* positive +3, contains the positive keyword U+4E0A U+6607 (+2)
     <<36942, 21435, 26368, 39640, 12434, 26356, 26032, 12375, 24613, 39472>>,  \* two positive +3 keywords
     <<23433, 23450>>,  \* positive +1
     <<83, 117, 114, 103, 101>>,  \* positive 'surge' (+3) in another letter case
     <<26292, 33853, 12391, 21361, 27231>>,  \* two negative -3 keywords
     <<12452, 12531, 12501, 12524, 25080, 24565>>,  \* negative -2, contains a negative -1 keyword and a market keyword
     <<28187, 30410>>,  \* negative -2, also a theme keyword (group 3)
     <<35686, 25106>>,  \* negative -1
     <<78, 86, 73, 68, 73, 65>>,  \* sector keyword (group 1)
     <<82, 69, 73, 84>>,  \* sector keyword of group 4, contains 'IT' of group 1
     <<36023, 21454>> >>  \* theme keyword (group 4)

RECURSIVE Concats(_)
\* the texts made of at most n fragments
Concats(n) ==
  IF n = 0 THEN {<< >>}
  ELSE LET shorter == Concats(n - 1)
       IN  shorter \cup {t \o Fragments[i] : t \in shorter, i \in 1..Len(Fragments)}

Texts == Concats(MaxFrags)

\* a text in the letter cases a source may deliver it
CaseVariants(t) == {t, Lower(t), Upper(t)}

EmptyDict == [k \in {} |-> None]

\* a dict with the given text and, unless "absent", category and source
ScorerInput(text, category, source) ==
  Merge(Merge("text" :> text,
              IF category = "absent" THEN EmptyDict ELSE "category" :> category),
        IF source = "absent" THEN EmptyDict ELSE "source" :> source)

ScorerInputs(text) ==
  {ScorerInput(text, c, s) : c \in {"market", "sector", "theme", "absent"},
                             s \in {"domestic", "foreign", "absent"}}

\* items of the batches: texts with and without keywords, with and without
\* source, with caller-supplied fields (url "u", title "t", a category and an
\* impact_score of the caller's), and one item without text
TextPlain == Fragments[1]
TextSurge == Fragments[5] \o Fragments[1]
TextMixed == Fragments[8] \o Fragments[10]
TextStrong == Fragments[2] \o Fragments[3]

BatchItems ==
  { ("text" :> TextPlain) @@ ("source" :> "domestic"),
    ("text" :> TextPlain) @@ ("url" :> <<117>>),
    ("text" :> TextSurge) @@ ("source" :> "foreign") @@ ("url" :> <<117>>)
       @@ ("title" :> <<116>>),
    ("text" :> TextSurge) @@ ("source" :> "domestic") @@ ("category" :> "theme"),
    ("text" :> TextMixed) @@ ("source" :> "foreign") @@ ("impact_score" :> 99),
    ("text" :> TextMixed) @@ ("title" :> <<116>>),
    ("text" :> TextStrong) @@ ("source" :> "foreign"),
    ("source" :> "domestic") @@ ("url" :> <<117>>) }

RECURSIVE SeqsUpTo(_, _)
\* the sequences of at most n elements of S
SeqsUpTo(S, n) ==
  IF n = 0 THEN {<< >>}
  ELSE LET shorter == SeqsUpTo(S, n - 1)
       IN  shorter \cup {Append(q, x) : q \in shorter, x \in S}

Batches == SeqsUpTo(BatchItems, MaxBatch)


\* the six value fields of a call of add_daily_record
MkStats(total, zero, plus2, minus2, count, macro) ==
  ("total_score" :> total) @@ ("zero_ratio" :> zero) @@ ("plus2_ratio" :> plus2)
    @@ ("minus2_ratio" :> minus2) @@ ("news_count" :> count) @@ ("macro_ratio" :> macro)

\* the six value fields given as ints
IntStats(total, zero, plus2, minus2, count, macro) ==
  MkStats(PyInt(total), PyInt(zero), PyInt(plus2), PyInt(minus2), PyInt(count),
          PyInt(macro))

\* a quiet day and a lively day
StatsQuiet == IntStats(0, 100, 0, 0, 10, 0)
StatsLively == IntStats(2, 40, 40, 20, 5, 20)

Stats == {StatsQuiet, StatsLively}

\* the clock changes between two calls in SpecHistory: the next day, a
\* skipped day, and jumps around the retention window
ClockSteps == {1, 2, RETENTION_DAYS, RETENTION_DAYS + 1}

\* the dates of the entries of a loaded log, relative to today
LoadedDates == <<0 - RETENTION_DAYS - 1, 0 - RETENTION_DAYS, -1, 0>>

RECURSIVE LogsOver(_)
\* the logs with at most one entry for each of the first n dates of
\* LoadedDates, in date order
LogsOver(n) ==
  IF n = 0 THEN {<< >>}
  ELSE LET shorter == LogsOver(n - 1)
       IN  shorter \cup
           {Append(l, Merge("date" :> LoadedDates[n], st)) : l \in shorter, st \in Stats}

LoadedLogs == LogsOver(Len(LoadedDates))

\* the logs a constructed HistoryManager is given: those of LoadedLogs and
\* a list of one object without fields
StoreLogs == LoadedLogs \cup {<<EmptyDict>>}

\* what history.json may hold when a HistoryManager is constructed
StoreContents ==
  {Content(k, 0, << >>) :
     k \in {"missing", "directory", "unreadable", "not_utf8", "not_json", "scalar"}}
    \cup {Content(k, n, << >>) : k \in {"text", "object"}, n \in 0..1}
    \cup {Content("items", n, << >>) : n \in 1..2}
    \cup {Entries(l) : l \in StoreLogs}

\* a scored item as calculate_aggregate_scores reads it
ScoredItem(source, impact_score) ==
  ("source" :> source) @@ ("impact_score" :> impact_score)

\* the scored items the batches are made of, in a fixed order; the last one
\* has no source (an item classify_batch of llm_classifier.py copied from a
\* caller's item without one)
ScoredItems ==
  <<ScoredItem("domestic", -10), ScoredItem("domestic", -1),
    ScoredItem("domestic", 0), ScoredItem("domestic", 1),
    ScoredItem("domestic", 10),
    ScoredItem("foreign", -10), ScoredItem("foreign", -1),
    ScoredItem("foreign", 0), ScoredItem("foreign", 1),
    ScoredItem("foreign", 10),
    "impact_score" :> 10>>

RECURSIVE Ascending(_)
\* the sequences of at most n indices of ScoredItems that do not descend
Ascending(n) ==
  IF n = 0 THEN {<< >>}
  ELSE LET shorter == Ascending(n - 1)
           longest == {q \in shorter : Len(q) = n - 1}
       IN  shorter \cup
           {Append(x[1], x[2]) :
              x \in {y \in longest \X (1..Len(ScoredItems)) :
                       y[1] = << >> \/ y[1][Len(y[1])] <= y[2]}}

\* the scored batches: at most MaxScored items; the order of the items does
\* not enter the sums, so one order of each choice of items is taken
ScoredBatches ==
  {[j \in 1..Len(q) |-> ScoredItems[q[j]]] : q \in Ascending(MaxScored)}

\* n scored items of one origin with the same score
Same(n, source, impact_score) == [i \in 1..n |-> ScoredItem(source, impact_score)]

\* batches of more items, whose averages are no binary fractions: ten
\* domestic items summing to 3 with four foreign ones summing to 1, twenty
\* summing to 3 with ten summing to -3, and nine with one
LargeBatches ==
  { Same(3, "domestic", 1) \o Same(7, "domestic", 0)
      \o Same(1, "foreign", 1) \o Same(3, "foreign", 0),
    Same(3, "domestic", 1) \o Same(17, "domestic", 0)
      \o Same(3, "foreign", -1) \o Same(7, "foreign", 0),
    Same(9, "domestic", 0) \o Same(1, "foreign", -10) }

\* an item that was never scored: NewsDTO.to_dict() of a fetched item, which
\* classify_with_llm returns as it got it when the model cannot be reached
UnscoredItem(source) == ("source" :> source) @@ ("nulls" :> {"impact_score"})

\* batches with an item that has no score
UnscoredBatches ==
  { <<UnscoredItem("domestic")>>,
    <<ScoredItem("foreign", 1), UnscoredItem("domestic")>>,
    <<ScoredItem("domestic", 1), UnscoredItem("other")>>,
    <<UnscoredItem("foreign"), "source" :> "other">>,
    <<UnscoredItem("other"), "source" :> "other">>,
    <<"source" :> "domestic">> }

\* an aggregate record with the scores in tenths
Aggregate(total, domestic, foreign) ==
  [total_score |-> total, domestic_score |-> domestic, foreign_score |-> foreign,
   domestic_foreign_gap |-> domestic - foreign, news_count |-> 10,
   zero_score_count |-> 0]

\* total scores (in tenths) of the records given to the AlertDetector:
\* differences of 3.0 and 5.0, smaller and larger ones, and both signs
AlertTotals == {-46, -16, 2, 4, 14}

\* the records added to the AlertDetector
AlertRecords == {Aggregate(t, t, t) : t \in AlertTotals}

\* the records detect_alerts is called with: those, and records whose
\* domestic and foreign scores differ by 6.0, 4.9 and -5.0
CurrentRecords ==
  AlertRecords \cup {Aggregate(30, 60, 0), Aggregate(24, 49, 0), Aggregate(25, 0, 50)}

\* a day whose zero_ratio is exactly 80
StatsAtThreshold == IntStats(1, 80, 10, 10, 10, 0)

\* the stats of the entries the queries read
QueryStats == Stats \cup {StatsAtThreshold}

\* the dates of those entries, relative to today: around the start of the
\* seven-day range, two days apart from the next ones, yesterday and today
QueryDates == <<-8, -7, -6, -2, -1, 0>>

RECURSIVE QueryLogsOver(_)
\* the logs of at most MaxQueryLog entries with at most one entry for each
\* of the first n dates of QueryDates, in date order
QueryLogsOver(n) ==
  IF n = 0 THEN {<< >>}
  ELSE LET shorter == QueryLogsOver(n - 1)
       IN  shorter \cup
           {Append(l, Merge("date" :> QueryDates[n], st)) :
              l \in {k \in shorter : Len(k) < MaxQueryLog}, st \in QueryStats}

\* a log with an entry for every day from eight days ago to today
FullLog(st) == [i \in 1..9 |-> Merge("date" :> i - 9, st)]

\* the logs queried: the short ones, and the full ones, which hold more
\* entries than the seven days of the comparison
QueryLogs == QueryLogsOver(Len(QueryDates)) \cup {FullLog(st) : st \in QueryStats}

\* the logs of a late evening: an entry of seven days ago, of yesterday and
\* of today, or some of them
OvernightLogs ==
  {l \in QueryLogs : \A i \in 1..Len(l) : l[i]["date"] \in {-7, -1, 0} /\ l[i] \in {Merge("date" :> l[i]["date"], st) : st \in Stats}}

\* the current values given to get_7day_comparison (main.py lines 122-127)
Currents ==
  {[total_score |-> PyInt(9), zero_ratio |-> PyInt(10), plus2_ratio |-> PyInt(70),
    minus2_ratio |-> PyInt(20)],
   [total_score |-> PyInt(-3), zero_ratio |-> PyInt(90), plus2_ratio |-> PyInt(0),
    minus2_ratio |-> PyInt(10)]}

\* the ratios (in percent) given to TriggerDetector.detect
ZeroRatios == {PyInt(r) : r \in {0, 49, 50, 80, 81, 100}}
Plus2Ratios == {PyInt(r) : r \in {0, 30, 31, 50, 51}}
MacroRatios == {PyInt(r) : r \in {0, 30, 31}}

\* the arguments of detect: the three ratios of a batch are shares of
\* disjoint sets of items
TriggerArgs ==
  {a \in [zero_ratio : ZeroRatios, plus2_ratio : Plus2Ratios,
          minus2_ratio : Plus2Ratios, macro_ratio : MacroRatios,
          consecutive_high_zero_days : 0..MaxHighZeroDays] :
     a.zero_ratio.int + a.plus2_ratio.int + a.minus2_ratio.int <= 100}

\* the scored batch and the macro count of a run:
\*   seventeen items scored 0 and four scored -5 (zero_ratio
\*     80.95238095238095, minus2_ratio 19.047619047619047, mean -1.0, gap 5.0);
\*   four items scored 0 and one scored 10 (zero_ratio 80.0, mean 2.0,
\*     gap 10.0, macro_ratio 40.0)
QuietInput == [scored |-> Same(17, "domestic", 0) \o Same(4, "foreign", -5), macro |-> 0]

RunInputs ==
  { QuietInput,
    [scored |-> Same(4, "foreign", 0) \o Same(1, "domestic", 10), macro |-> 2] }

\* the clock changes between two runs: the next day, a skipped day, and a
\* pause that takes the entries out of the retention window
RunDaySteps == {1, 2, RETENTION_DAYS + 1}

\* texts given to the LLM classifier
TextRates == <<114, 97, 116, 101, 115, 32, 117, 112>>  \* 'rates up'
TextRatesNow == <<82, 97, 116, 101, 115, 32, 32, 85, 80, 10, 110, 111, 119>>  \* 'Rates  UP\nnow', two of its three words are those of TextRates
TextOil == <<111, 105, 108>>  \* 'oil'

\* items given to the LLM classifier: with a text, with a title only, with
\* neither, and with a text that is None
LLMItems ==
  { ("text" :> TextRates @@ "source" :> "foreign"),
    ("text" :> TextRatesNow),
    ("title" :> TextOil),
    EmptyDict,
    ("title" :> TextOil @@ "nulls" :> {"text"}) }

\* outcomes of the call of the model: a failed call or a reply that is not
\* JSON (with the exception's text), and parsed answers with and without
\* fields, with an impact_score inside and outside -10..10 and with null,
\* with floats (7.5 and 4.5), and with a list and a str ('high') where a
\* number is compared
LLMAnswers ==
  { [ok |-> FALSE, message |-> <<113, 117, 111, 116, 97>>],
    [ok |-> TRUE, result |-> EmptyDict],
    [ok |-> TRUE, result |-> ("category" :> "sector" @@ "impact_score" :> PyInt(3) @@ "reason" :> <<111, 107>>)],
    [ok |-> TRUE, result |-> ("category" :> "theme" @@ "impact_score" :> PyInt(15))],
    [ok |-> TRUE, result |-> ("category" :> "market" @@ "impact_score" :> PyInt(-12) @@ "confidence" :> PyInt(9))],
    [ok |-> TRUE, result |-> ("category" :> "sector" @@ "nulls" :> {"impact_score", "reason"})],
    [ok |-> TRUE, result |-> ("impact_score" :> PyInt(2) @@ "nulls" :> {"category"})],
    [ok |-> TRUE, result |-> ("category" :> "theme" @@ "impact_score" :> TrueDiv(15, 2) @@ "confidence" :> TrueDiv(9, 2))],
    [ok |-> TRUE, result |-> ("impact_score" :> PyInt(1) @@ "market_impact" :> PyList(<<PyInt(2)>>)
                               @@ "confidence" :> PyStr(<<104, 105, 103, 104>>))] }

\* the words kept for the cache, one set for each item of news_list
KeptWords(news_list) ==
  {words \in [1..Len(news_list) ->
                UNION {CachedWords(TextOf(news_list[i])) : i \in 1..Len(news_list)}] :
     \A i \in 1..Len(news_list) : words[i] \in CachedWords(TextOf(news_list[i]))}

\* ------------------------------------------------------------------------
\* main.py, webapp.py: one run of the pipeline from the scored batch on
\* ------------------------------------------------------------------------
\* (count / news_count * 100) if news_count > 0 else 0 (main.py lines
\* 110-117, webapp.py lines 98-105): the quotient rounded to a double, its
\* product with 100 rounded to a double; the int 0 for no news
Percent(count, news_count) ==
  IF news_count > 0 THEN DoubleMul(TrueDiv(count, news_count), 100) ELSE PyInt(0)

\* sum(1 for n in scored if n.get("impact_score", 0) >= 2), line 113
plus2_count(scored_list) ==
  Cardinality({i \in 1..Len(scored_list) : Get(scored_list[i], "impact_score", 0) >= 2})

\* sum(1 for n in scored if n.get("impact_score", 0) <= -2), line 114
minus2_count(scored_list) ==
  Cardinality({i \in 1..Len(scored_list) : Get(scored_list[i], "impact_score", 0) <= -2})

\* aggregates.get("total_score", 0) (main.py line 123): the int 0 of an
\* empty batch, else the float round(total_avg, 1) of scorer.py line 189, the
\* double nearest to the decimal; a negative average that rounds to zero gives
\* -0.0
total_score_value(scored_list, aggs) ==
  IF aggs.news_count = 0 THEN PyInt(0)
  ELSE IF aggs.total_score = 0
  THEN Double(Sum(AllScores(scored_list)) < 0, BigZero)
  ELSE FloatOfTenths(aggs.total_score)

\* the six values given to add_daily_record (main.py lines 108-117 and
\* 133-140, webapp.py lines 96-105 and 121-128)
run_statistics(scored_list, aggs, macro_count) ==
  MkStats(total_score_value(scored_list, aggs),
          Percent(aggs.zero_score_count, aggs.news_count),
          Percent(plus2_count(scored_list), aggs.news_count),
          Percent(minus2_count(scored_list), aggs.news_count),
          PyInt(aggs.news_count),
          Percent(macro_count, aggs.news_count))

\* current_data of main.py lines 122-127
current_data(st) ==
  [total_score |-> st["total_score"], zero_ratio |-> st["zero_ratio"],
   plus2_ratio |-> st["plus2_ratio"], minus2_ratio |-> st["minus2_ratio"]]

\* the day count without the increment for today
day_count_Stored(stored, zero_ratio) == stored

\* consecutive_high_zero of main.py lines 130-132: the stored run, plus one
\* when today's zero_ratio is above 80
day_count(stored, zero_ratio) ==
  IF NumAbove(zero_ratio, 80) THEN stored + 1 ELSE stored

\* a detector that keeps the history of the run before
AlertDetector_Kept(previous) == previous

\* detector = AlertDetector() (main.py line 76, webapp.py line 63): the
\* history of the new detector, whatever the detector of the run before held
AlertDetector(previous) == << >>

\* the file history.json before the first run of a behaviour: missing, or
\* as a run of the day before left it
RunFiles ==
  {NoFile,
   save(NoFile, add_daily_record(<< >>, -1, -1,
                                 run_statistics(QuietInput.scored,
                                                calculate_aggregate_scores(QuietInput.scored),
                                                QuietInput.macro)))}

\* a run up to its statistics (main.py lines 76-117, webapp.py lines 63-105)
\* from the scored batch on: the detector is made, the batch aggregated, the
\* alerts detected and, in main only, the record added to the detector
run_batch(kind, previous, scored_list, macro_count) ==
  LET detector == AlertDetector(previous)
      aggs == calculate_aggregate_scores(scored_list)
  IN  [detector |-> IF kind = "main" THEN add_daily_score(detector, aggs) ELSE detector,
       alerts |-> detect_alerts(detector, aggs),
       stats |-> run_statistics(scored_list, aggs, macro_count)]

\* the two queries of a run on its HistoryManager (main.py lines 128-132,
\* webapp.py lines 115-119); clock holds the days of the three readings of
\* the clock, two in get_7day_comparison and one in
\* get_consecutive_high_zero_days
run_queries(history, clock, st) ==
  [comparison |-> get_7day_comparison(history, clock[1], clock[2], current_data(st)),
   days |-> day_count(get_consecutive_high_zero_days(history, clock[3]),
                      st["zero_ratio"])]

\* detect_triggers(...) of main.py lines 146-152 and webapp.py lines 131-137
run_detect(st, days) ==
  detect(st["zero_ratio"], st["plus2_ratio"], st["minus2_ratio"],
         st["macro_ratio"], days)

\* ------------------------------------------------------------------------
\* State
\* ------------------------------------------------------------------------
VARIABLES
  \* one item through classify_news and calculate_impact_score
  pc,         \* "start", "classified", "scored"
  news_text,  \* the text given to classify_news
  alt_text,   \* the same text in another letter case
  src_arg,    \* the source given to classify_news ("domestic" before the call)
  cls,        \* classify_news(news_text, src_arg)
  cls_alt,    \* classify_news(alt_text, src_arg)
  sc_in,      \* the dict given to calculate_impact_score
  sc_out,     \* its result (score, reason)
  \* one batch through classify_news_batch and score_news_batch
  bpc,        \* "start", "classified", "scored", "raised"
  news_list,  \* the caller's batch
  news_list0, \* the batch as the caller built it
  classified, \* result of classify_news_batch
  scored,     \* result of score_news_batch
  \* the history log and the HistoryManager
  today,      \* the calendar day of datetime.now()
  file,       \* history.json
  hpc,        \* "none": no manager; "loaded": a HistoryManager was constructed
  history,    \* HistoryManager.history
  calls,      \* add_daily_record calls made today
  last_path,  \* where the last add_daily_record returned: "update", "append"
  last_stats, \* the stats of the last add_daily_record
  ticks,      \* clock changes so far
  gaps,       \* days without a call, clock jumps and midnights that fell
              \* inside a call so far
  \* two callers whose pipeline runs overlap on the history log
  rpc,        \* per caller: "idle", "loaded", "updated", "opened", "done"
  rhist,      \* per caller: the history of its HistoryManager
  nruns,      \* per caller: runs started
  seen,       \* per caller: what its last load read, the last complete log
              \* of the file back then and the logs then being saved
  committed,  \* the last complete log the file held
  started,    \* the log the file held before the first run
  saved       \* whether a save has completed

VARIABLES
  \* a HistoryManager constructed over any content of history.json
  content,    \* what the path holds
  mstatus,    \* "none": no manager; "ok": constructed; else the exception
              \* that left the constructor
  mhistory,   \* self.history of that manager
  mcall,      \* the last method called on it: "none", "add", "last_n_days",
              \* "comparison", "high_zero_days"
  moutcome,   \* "none", "ok", or the exception that call raised
  mcount      \* calls made on the manager

VARIABLES
  \* one batch through calculate_aggregate_scores
  apc,              \* "start", "done", "raised"
  scored_news_list, \* the scored batch
  aggregates,       \* the record returned, None before the call
  \* an AlertDetector
  dpc,              \* "ready": constructed or a record added since the last
                    \* detect_alerts; "detected": detect_alerts returned
  detector_history, \* AlertDetector.history
  current_scores,   \* the record of the last detect_alerts call
  alerts,           \* the alerts it returned
  \* one call of TriggerDetector.detect
  tpc,              \* "start", "detected"
  trigger_args,     \* the five arguments
  triggers,         \* the list returned
  \* a HistoryManager with its log loaded, and the calls made on it
  qcall,            \* the last call: "none", "add", "high_zero_days", "comparison"
  qhistory,         \* self.history
  qfile,            \* the list history.json holds
  qbefore,          \* <<self.history, file>> when the last call was made
  qcurrent,         \* the argument of the last get_7day_comparison
  qanswer           \* what the last query returned

VARIABLES
  \* the LLM classifier
  lpc,          \* "start"; "constructed", "classified": a GeminiClassifier
                \* object exists; "returned", "unclassified": classify_with_llm
                \* returned, with and without a classifier
  seen_hashes,  \* GeminiClassifier.seen_hashes, in insertion order
  llm_in,       \* the list given to the last call
  llm_out,      \* the list it returned
  lcount        \* items classified by the object

VARIABLES
  \* pipeline runs over one history.json
  run_today,     \* the calendar day
  run_ticks,     \* changes of the calendar day so far
  run_count,     \* runs begun so far
  run_file,      \* the file history.json
  run_recorded,  \* the last complete log the file held
  run_proc,      \* per process, the run it is making: where it is ("idle",
                 \* "loaded", "updated", "opened") and, unless idle,
                 \* what the run computed before it read the log,
                 \* the history of its HistoryManager, the log that was
                 \* recorded when it read the file, the days of the
                 \* readings of the clock it has made and, from "updated"
                 \* on, what the queries returned
  run_overlap,   \* whether a run has begun while another one was being made
  \* the run that ended last
  run_pc,        \* "ready": no run has ended yet; "done": a run has ended
  run_kind,      \* "main" or "dashboard"
  run_clock,     \* the days of its readings of the clock: five, or four
                 \* when it updated an entry
  run_before,    \* the log that was recorded when it read the file
  run_prev,      \* readings of the clock, statistics, day count and
                 \* comparison of the run that ended before it, None if none
  run_detector,  \* the history of its AlertDetector when it ended
  run_alerts,    \* its alerts
  run_stats,     \* the six values it gave to add_daily_record
  history_comparison,     \* its history_comparison
  consecutive_high_zero,  \* the day count it gave to detect_triggers
  run_triggers   \* its triggers

storeVars == <<content, mstatus, mhistory, mcall, moutcome, mcount>>
aggVars == <<apc, scored_news_list, aggregates>>
alertVars == <<dpc, detector_history, current_scores, alerts>>
trigVars == <<tpc, trigger_args, triggers>>
queryVars == <<qcall, qhistory, qfile, qbefore, qcurrent, qanswer>>
unitVars == <<storeVars, aggVars, alertVars, trigVars, queryVars>>
llmVars == <<lpc, seen_hashes, llm_in, llm_out, lcount>>
runVars == <<run_today, run_ticks, run_count, run_file, run_recorded, run_proc, run_overlap, run_pc, run_kind, run_clock, run_before, run_prev, run_detector, run_alerts, run_stats, history_comparison, consecutive_high_zero, run_triggers>>
extVars == <<llmVars, runVars>>

itemVars == <<pc, news_text, alt_text, src_arg, cls, cls_alt, sc_in, sc_out>>
batchVars == <<bpc, news_list, news_list0, classified, scored>>
histVars == <<today, file, hpc, history, calls, last_path, last_stats, ticks, gaps>>
concVars == <<rpc, rhist, nruns, seen, committed, started, saved>>
vars == <<itemVars, batchVars, histVars, concVars, unitVars, extVars>>

ItemIdle ==
  /\ pc = "idle" /\ news_text = << >> /\ alt_text = << >> /\ src_arg = "domestic"
  /\ cls = EmptyDict /\ cls_alt = EmptyDict /\ sc_in = EmptyDict /\ sc_out = << >>

BatchIdle ==
  /\ bpc = "idle" /\ news_list = << >> /\ news_list0 = << >>
  /\ classified = << >> /\ scored = << >>

\* the two requests that run generate_dashboard_data (webapp.py lines 375-386)
Callers == {"report", "refresh"}

NothingSeen == [got |-> << >>, before |-> << >>, saving |-> {}]

ConcIdle ==
  /\ rpc = [p \in Callers |-> "idle"]
  /\ rhist = [p \in Callers |-> << >>]
  /\ nruns = [p \in Callers |-> 0]
  /\ seen = [p \in Callers |-> NothingSeen]
  /\ committed = << >> /\ started = << >>
  /\ saved = FALSE

HistIdle ==
  /\ today = 0 /\ file = NoFile /\ hpc = "none" /\ history = << >>
  /\ calls = 0 /\ last_path = "none" /\ last_stats = StatsQuiet
  /\ ticks = 0 /\ gaps = 0
  /\ ConcIdle

StoreIdle ==
  /\ content = Content("missing", 0, << >>)
  /\ mstatus = "none" /\ mhistory = EmptyHistory
  /\ mcall = "none" /\ moutcome = "none" /\ mcount = 0

AggIdle ==
  /\ apc = "idle" /\ scored_news_list = << >> /\ aggregates = None

AlertIdle ==
  /\ dpc = "idle" /\ detector_history = << >>
  /\ current_scores = ZeroAggregate /\ alerts = << >>

NoTriggerArgs ==
  [zero_ratio |-> PyInt(0), plus2_ratio |-> PyInt(0), minus2_ratio |-> PyInt(0),
   macro_ratio |-> PyInt(0), consecutive_high_zero_days |-> 0]

TrigIdle ==
  /\ tpc = "idle" /\ trigger_args = NoTriggerArgs /\ triggers = << >>

QueryIdle ==
  /\ qcall = "idle" /\ qhistory = << >> /\ qfile = << >>
  /\ qbefore = << >> /\ qcurrent = EmptyDict /\ qanswer = None

UnitIdle == StoreIdle /\ AggIdle /\ AlertIdle /\ TrigIdle /\ QueryIdle

LLMIdle ==
  /\ lpc = "idle" /\ seen_hashes = << >>
  /\ llm_in = << >> /\ llm_out = << >> /\ lcount = 0

\* the processes and threads that run a pipeline: the program main.py, and
\* in the threaded server of webapp.py (line 394) the requests /api/report
\* and /api/refresh, which both run generate_dashboard_data (lines 375-386)
Runners == {"main", "report", "refresh"}

\* what a runner runs: main() or generate_dashboard_data()
RunKind(p) == IF p = "main" THEN "main" ELSE "dashboard"

\* a process that is making no run
NoRun == [pc |-> "idle"]

\* no run has been made, and the file history.json is f
NoRuns(at, f) ==
  /\ run_pc = at /\ run_kind = "none" /\ run_today = 0 /\ run_ticks = 0
  /\ run_clock = << >>
  /\ run_count = 0
  /\ run_file = f /\ run_recorded = load(f)
  /\ run_proc = [p \in Runners |-> NoRun] /\ run_overlap = FALSE
  /\ run_before = << >> /\ run_prev = None
  /\ run_detector = << >> /\ run_alerts = << >> /\ run_stats = EmptyDict
  /\ history_comparison = None /\ consecutive_high_zero = 0
  /\ run_triggers = << >>

RunIdle == NoRuns("idle", NoFile)

ExtIdle == LLMIdle /\ RunIdle

\* ------------------------------------------------------------------------
\* One item: classify_news, calculate_impact_score
\* ------------------------------------------------------------------------
InitItem ==
  /\ UnitIdle /\ ExtIdle
  /\ pc = "start"
  /\ news_text \in Texts
  /\ alt_text = << >>
  /\ src_arg = "domestic"
  /\ cls = EmptyDict /\ cls_alt = EmptyDict /\ sc_in = EmptyDict /\ sc_out = << >>
  /\ BatchIdle
  /\ HistIdle

\* classify_news is called on the text, and on the text in another letter
\* case, with some source
ClassifyNews ==
  /\ pc = "start"
  /\ \E source \in {"domestic", "foreign"}, alt \in CaseVariants(news_text) :
       /\ src_arg' = source
       /\ alt_text' = alt
       /\ cls' = classify_news(news_text, source)
       /\ cls_alt' = classify_news(alt, source)
  /\ pc' = "classified"
  /\ UNCHANGED <<news_text, sc_in, sc_out, batchVars, histVars, concVars, unitVars, extVars>>

\* calculate_impact_score is called on the classified item
ScoreClassified ==
  /\ pc = "classified"
  /\ \E choice \in RandomChoices(cls) :
       /\ sc_in' = cls
       /\ sc_out' = calculate_impact_score(cls, choice)
  /\ pc' = "scored"
  /\ UNCHANGED <<news_text, alt_text, src_arg, cls, cls_alt, batchVars, histVars, concVars, unitVars, extVars>>

\* calculate_impact_score is called on an item a caller classified itself
\* (any category, source possibly absent)
ScoreItem ==
  /\ pc = "start"
  /\ \E item \in ScorerInputs(news_text) : \E choice \in RandomChoices(item) :
       /\ sc_in' = item
       /\ sc_out' = calculate_impact_score(item, choice)
  /\ pc' = "scored"
  /\ UNCHANGED <<news_text, alt_text, src_arg, cls, cls_alt, batchVars, histVars, concVars, unitVars, extVars>>

\* ------------------------------------------------------------------------
\* One batch: classify_news_batch, score_news_batch (main.py lines 79-83)
\* ------------------------------------------------------------------------
InitBatch ==
  /\ UnitIdle /\ ExtIdle
  /\ ItemIdle
  /\ HistIdle
  /\ bpc = "start"
  /\ news_list \in Batches
  /\ news_list0 = news_list
  /\ classified = << >> /\ scored = << >>

ClassifyBatch ==
  /\ bpc = "start"
  /\ ~classify_news_batch_raises(news_list)
  /\ classified' = classify_news_batch(news_list)
  /\ bpc' = "classified"
  /\ UNCHANGED <<news_list, news_list0, scored, itemVars, histVars, concVars, unitVars, extVars>>

\* KeyError: the exception leaves classify_news_batch, nothing is returned
ClassifyBatchRaises ==
  /\ bpc = "start"
  /\ classify_news_batch_raises(news_list)
  /\ bpc' = "raised"
  /\ UNCHANGED <<news_list, news_list0, classified, scored, itemVars, histVars, concVars, unitVars, extVars>>

ScoreBatch ==
  /\ bpc = "classified"
  /\ \E choices \in [1..Len(classified) -> 1..Len(neutral_reasons)] :
       /\ \A i \in 1..Len(classified) : choices[i] \in RandomChoices(classified[i])
       /\ scored' = score_news_batch(classified, choices)
  /\ bpc' = "scored"
  /\ UNCHANGED <<news_list, news_list0, classified, itemVars, histVars, concVars, unitVars, extVars>>

\* ------------------------------------------------------------------------
\* The pipeline: an item or a batch is classified and scored
\* ------------------------------------------------------------------------
Init == InitItem \/ InitBatch

Next ==
  \/ ClassifyNews
  \/ ScoreClassified
  \/ ScoreItem
  \/ ClassifyBatch
  \/ ClassifyBatchRaises
  \/ ScoreBatch

Spec == Init /\ [][Next]_vars

\* ------------------------------------------------------------------------
\* The history log, one HistoryManager at a time (main.py lines 120-141)
\* ------------------------------------------------------------------------
\* get_history_manager(): HistoryManager() loads the file
LoadManager ==
  /\ history' = load(file)
  /\ hpc' = "loaded"
  /\ UNCHANGED <<today, file, calls, last_path, last_stats, ticks, gaps,
                 itemVars, batchVars, concVars, unitVars, extVars>>

\* a call reads the clock a second time and gets the day now: the same
\* day, or the next one when midnight fell between the two readings, which
\* happens only while gaps is below limit
SecondRead(now, limit) ==
  /\ now \in Later(today)
  /\ now # today => gaps < limit
  /\ today' = now
  /\ gaps' = IF now # today THEN gaps + 1 ELSE gaps

\* add_daily_record(...) with stats of S: the history is updated and saved;
\* a call that appends reads the clock a second time (line 78)
AddCall(S) ==
  /\ hpc = "loaded"
  /\ calls < MaxCallsPerDay
  /\ \E st \in S, now \in Later(today) :
       /\ HasToday(history, today) => now = today
       /\ SecondRead(now, MaxMidnights)
       /\ history' = add_daily_record(history, today, now, st)
       /\ last_stats' = st
  /\ file' = save(file, history')
  /\ last_path' = IF HasToday(history, today) THEN "update" ELSE "append"
  /\ calls' = calls + 1
  /\ UNCHANGED <<hpc, ticks, itemVars, batchVars, concVars, unitVars, extVars>>

AddDailyRecord == AddCall(Stats)

\* the calendar day changes
Tick ==
  /\ ticks < MaxTicks
  /\ \E k \in ClockSteps : today' = today + k
  /\ ticks' = ticks + 1
  /\ calls' = 0
  /\ UNCHANGED <<file, hpc, history, last_path, last_stats, gaps, itemVars, batchVars, concVars, unitVars, extVars>>

InitHistory ==
  /\ UnitIdle /\ ExtIdle
  /\ ItemIdle /\ BatchIdle
  /\ HistIdle

NextHistory == LoadManager \/ AddDailyRecord \/ Tick

\* calls on any days, starting from an empty log
SpecHistory == InitHistory /\ [][NextHistory]_vars

\* a run per day over more than a retention window: the stats do not matter
AddDailyQuiet == AddCall({StatsQuiet})

\* midnight; a day that ends without a call is a gap
NextDay ==
  /\ today < MaxDay
  /\ calls > 0 \/ gaps < MaxGaps
  /\ today' = today + 1
  /\ gaps' = IF calls = 0 THEN gaps + 1 ELSE gaps
  /\ calls' = 0
  /\ UNCHANGED <<file, hpc, history, last_path, last_stats, ticks, itemVars, batchVars, concVars, unitVars, extVars>>

\* the program is not run for a retention window
LongPause ==
  /\ gaps < MaxGaps
  /\ \E k \in {RETENTION_DAYS, RETENTION_DAYS + 1} :
       /\ today + k <= MaxDay
       /\ today' = today + k
  /\ gaps' = gaps + 1
  /\ calls' = 0
  /\ UNCHANGED <<file, hpc, history, last_path, last_stats, ticks, itemVars, batchVars, concVars, unitVars, extVars>>

NextRetention == LoadManager \/ AddDailyQuiet \/ NextDay \/ LongPause

\* calls on non-decreasing days, starting from an empty log
SpecRetention == InitHistory /\ [][NextRetention]_vars

\* a log found on disk: any entries, among them old ones and one of today
InitLoaded ==
  /\ UnitIdle /\ ExtIdle
  /\ ItemIdle /\ BatchIdle
  /\ today = 0
  /\ \E l \in LoadedLogs : file = save(NoFile, l)
  /\ hpc = "none" /\ history = << >>
  /\ calls = 0 /\ last_path = "none" /\ last_stats = StatsQuiet
  /\ ticks = 0 /\ gaps = 0
  /\ ConcIdle

NextLoaded == LoadManager \/ AddDailyRecord

SpecLoaded == InitLoaded /\ [][NextLoaded]_vars

\* ------------------------------------------------------------------------
\* Two overlapping runs of generate_dashboard_data on the same log
\* (webapp.py lines 107-128): each step below is one file operation or the
\* in-memory part of add_daily_record
\* ------------------------------------------------------------------------
seqVars == <<hpc, history, calls, last_path, last_stats, ticks>>

\* get_history_manager(), webapp.py line 108: the file is read
RunLoad(p) ==
  /\ rpc[p] \in {"idle", "done"}
  /\ nruns[p] < MaxRuns
  /\ nruns' = [nruns EXCEPT ![p] = @ + 1]
  /\ rhist' = [rhist EXCEPT ![p] = load(file)]
  /\ seen' = [seen EXCEPT ![p] =
                [got |-> load(file),
                 before |-> committed,
                 saving |-> {rhist[q] : q \in {r \in Callers : rpc[r] = "opened"}}]]
  /\ rpc' = [rpc EXCEPT ![p] = "loaded"]
  /\ UNCHANGED <<today, gaps, file, committed, started, saved, seqVars, itemVars, batchVars, unitVars, extVars>>

\* add_daily_record up to its call of _save (history.py lines 50-62, 67-79)
RunUpdate(p) ==
  /\ rpc[p] = "loaded"
  /\ \E st \in Stats, now \in Later(today) :
       /\ HasToday(rhist[p], today) => now = today
       /\ SecondRead(now, MaxMidnights)
       /\ rhist' = [rhist EXCEPT ![p] = add_daily_record(rhist[p], today, now, st)]
  /\ rpc' = [rpc EXCEPT ![p] = "updated"]
  /\ UNCHANGED <<file, nruns, seen, committed, started, saved, seqVars, itemVars, batchVars, unitVars, extVars>>

\* _save: open(HISTORY_FILE, "w") (line 37)
RunOpen(p) ==
  /\ rpc[p] = "updated"
  /\ file' = save_open(file)
  /\ rpc' = [rpc EXCEPT ![p] = "opened"]
  /\ UNCHANGED <<today, gaps, rhist, nruns, seen, committed, started, saved, seqVars, itemVars, batchVars, unitVars, extVars>>

\* _save: json.dump and close (lines 37-38)
RunWrite(p) ==
  /\ rpc[p] = "opened"
  /\ file' = save_write(file, rhist[p])
  /\ committed' = IF Readable(file') THEN file'.doc ELSE committed
  /\ saved' = TRUE
  /\ rpc' = [rpc EXCEPT ![p] = "done"]
  /\ UNCHANGED <<today, gaps, rhist, nruns, seen, started, seqVars, itemVars, batchVars, unitVars, extVars>>

\* a run of an earlier day left a log, or there is none yet
InitConcurrent ==
  /\ UnitIdle /\ ExtIdle
  /\ ItemIdle /\ BatchIdle
  /\ today = 0
  /\ \E st \in Stats : file \in {NoFile, save(NoFile, <<Merge("date" :> -1, st)>>)}
  /\ hpc = "none" /\ history = << >>
  /\ calls = 0 /\ last_path = "none" /\ last_stats = StatsQuiet
  /\ ticks = 0 /\ gaps = 0
  /\ rpc = [p \in Callers |-> "idle"]
  /\ rhist = [p \in Callers |-> << >>]
  /\ nruns = [p \in Callers |-> 0]
  /\ seen = [p \in Callers |-> NothingSeen]
  /\ committed = load(file) /\ started = load(file)
  /\ saved = FALSE

NextConcurrent ==
  \E p \in Callers : RunLoad(p) \/ RunUpdate(p) \/ RunOpen(p) \/ RunWrite(p)

SpecConcurrent == InitConcurrent /\ [][NextConcurrent]_vars

\* ------------------------------------------------------------------------
\* A HistoryManager over any content of history.json
\* (data/history.py lines 22-33, then any calls on the manager)
\* ------------------------------------------------------------------------
coreVars == <<itemVars, batchVars, histVars, concVars>>

\* the same without the clock
restVars == <<file, hpc, history, calls, last_path, last_stats, ticks, itemVars, batchVars, concVars>>

Queries == {"last_n_days", "comparison", "high_zero_days"}

\* HistoryManager()
Construct ==
  /\ mstatus = "none"
  /\ LET c == construct(content)
     IN  /\ mstatus' = IF c.raised = "none" THEN "ok" ELSE c.raised
         /\ mhistory' = c.history
  /\ UNCHANGED <<content, mcall, moutcome, mcount, coreVars, extVars, aggVars, alertVars, trigVars, queryVars>>

\* add_daily_record(...) on the constructed manager
StoreAdd ==
  /\ mstatus = "ok"
  /\ mcount < MaxStoreCalls
  /\ \E st \in Stats, now \in Later(today) :
       LET r == store_add(content, mhistory, today, now, st)
       IN  /\ (r.raised \notin {"none", "IsADirectoryError"}
                 \/ HasToday(mhistory.doc, today)) => now = today
           /\ mhistory' = r.history
           /\ moutcome' = IF r.raised = "none" THEN "ok" ELSE r.raised
           /\ content' = IF r.written THEN store_content(content, r.history) ELSE content
           /\ SecondRead(now, MaxMidnights)
  /\ mcall' = "add"
  /\ mcount' = mcount + 1
  /\ UNCHANGED <<mstatus, restVars, extVars, aggVars, alertVars, trigVars, queryVars>>

\* get_last_n_days(), get_7day_comparison(current) or
\* get_consecutive_high_zero_days() on the constructed manager
StoreQuery ==
  /\ mstatus = "ok"
  /\ mcount < MaxStoreCalls
  /\ \E q \in Queries : mcall' = q
  /\ moutcome' = IF query_raises(mhistory) = "none" THEN "ok"
                 ELSE query_raises(mhistory)
  /\ mcount' = mcount + 1
  /\ UNCHANGED <<content, mstatus, mhistory, coreVars, extVars, aggVars, alertVars, trigVars, queryVars>>

InitStore ==
  /\ ItemIdle /\ BatchIdle /\ HistIdle /\ ExtIdle
  /\ AggIdle /\ AlertIdle /\ TrigIdle /\ QueryIdle
  /\ content \in StoreContents
  /\ mstatus = "none" /\ mhistory = EmptyHistory
  /\ mcall = "none" /\ moutcome = "none" /\ mcount = 0

NextStore == Construct \/ StoreAdd \/ StoreQuery

SpecStore == InitStore /\ [][NextStore]_vars

\* ------------------------------------------------------------------------
\* A scored batch is aggregated (main.py line 87)
\* ------------------------------------------------------------------------
\* calculate_aggregate_scores(scored_news_list)
AggregateScores ==
  /\ apc = "start"
  /\ apc' = IF aggregate_raises(scored_news_list) = "none" THEN "done" ELSE "raised"
  /\ aggregates' = IF aggregate_raises(scored_news_list) = "none"
                   THEN calculate_aggregate_scores(scored_news_list)
                   ELSE aggregates
  /\ UNCHANGED <<scored_news_list, coreVars, extVars, storeVars, alertVars, trigVars, queryVars>>

InitAggregate ==
  /\ ItemIdle /\ BatchIdle /\ HistIdle /\ ExtIdle
  /\ StoreIdle /\ AlertIdle /\ TrigIdle /\ QueryIdle
  /\ apc = "start"
  /\ scored_news_list \in ScoredBatches \cup LargeBatches \cup UnscoredBatches
  /\ aggregates = None

NextAggregate == AggregateScores

SpecAggregate == InitAggregate /\ [][NextAggregate]_vars

\* ------------------------------------------------------------------------
\* An AlertDetector: records are added and detect_alerts is called, in any
\* order (alert/detector.py)
\* ------------------------------------------------------------------------
\* add_daily_score(aggregate_scores)
AddDailyScore ==
  /\ dpc \in {"ready", "detected"}
  /\ Len(detector_history) < MaxAlertHistory
  /\ \E aggregate_scores \in AlertRecords :
       detector_history' = add_daily_score(detector_history, aggregate_scores)
  /\ dpc' = "ready"
  /\ current_scores' = ZeroAggregate
  /\ alerts' = << >>
  /\ UNCHANGED <<coreVars, extVars, storeVars, aggVars, trigVars, queryVars>>

\* detect_alerts(current_scores)
DetectAlerts ==
  /\ dpc \in {"ready", "detected"}
  /\ \E current \in CurrentRecords :
       /\ current_scores' = current
       /\ alerts' = detect_alerts(detector_history, current)
  /\ dpc' = "detected"
  /\ UNCHANGED <<detector_history, coreVars, extVars, storeVars, aggVars, trigVars, queryVars>>

\* AlertDetector()
InitAlerts ==
  /\ ItemIdle /\ BatchIdle /\ HistIdle /\ ExtIdle
  /\ StoreIdle /\ AggIdle /\ TrigIdle /\ QueryIdle
  /\ dpc = "ready"
  /\ detector_history = << >>
  /\ current_scores = ZeroAggregate
  /\ alerts = << >>

NextAlerts == AddDailyScore \/ DetectAlerts

SpecAlerts == InitAlerts /\ [][NextAlerts]_vars

\* ------------------------------------------------------------------------
\* TriggerDetector.detect is called (main.py lines 146-152)
\* ------------------------------------------------------------------------
DetectTriggers ==
  /\ tpc = "start"
  /\ triggers' = detect(trigger_args.zero_ratio, trigger_args.plus2_ratio,
                        trigger_args.minus2_ratio, trigger_args.macro_ratio,
                        trigger_args.consecutive_high_zero_days)
  /\ tpc' = "detected"
  /\ UNCHANGED <<trigger_args, coreVars, extVars, storeVars, aggVars, alertVars, queryVars>>

InitTriggers ==
  /\ ItemIdle /\ BatchIdle /\ HistIdle /\ ExtIdle
  /\ StoreIdle /\ AggIdle /\ AlertIdle /\ QueryIdle
  /\ tpc = "start"
  /\ trigger_args \in TriggerArgs
  /\ triggers = << >>

NextTriggers == DetectTriggers

SpecTriggers == InitTriggers /\ [][NextTriggers]_vars

\* ------------------------------------------------------------------------
\* A HistoryManager that has loaded its log: records are added and the
\* queries are made, in any order (main.py lines 120-141)
\* ------------------------------------------------------------------------
\* add_daily_record(...) of the stats st, midnight falling inside a call
\* at most limit times
QueryAdd(st, limit) ==
  /\ qcall # "idle"
  /\ qcall' = "add"
  /\ qbefore' = <<qhistory, qfile>>
  /\ \E now \in Later(today) :
       /\ HasToday(qhistory, today) => now = today
       /\ SecondRead(now, limit)
       /\ qhistory' = add_daily_record(qhistory, today, now, st)
       /\ qfile' = add_daily_record(qhistory, today, now, st)
  /\ UNCHANGED <<qcurrent, qanswer, restVars, extVars, storeVars, aggVars, alertVars, trigVars>>

\* get_consecutive_high_zero_days()
QueryHighZero ==
  /\ qcall # "idle"
  /\ qcall' = "high_zero_days"
  /\ qbefore' = <<qhistory, qfile>>
  /\ qanswer' = get_consecutive_high_zero_days(qhistory, today)
  /\ UNCHANGED <<qhistory, qfile, qcurrent, coreVars, extVars, storeVars, aggVars, alertVars, trigVars>>

\* get_7day_comparison(current), midnight falling inside a call at most
\* limit times
QueryComparison(current, limit) ==
  /\ qcall # "idle"
  /\ qcall' = "comparison"
  /\ qbefore' = <<qhistory, qfile>>
  /\ qcurrent' = current
  /\ \E now \in Later(today) :
       /\ SecondRead(now, limit)
       /\ qanswer' = get_7day_comparison(qhistory, today, now, current)
  /\ UNCHANGED <<qhistory, qfile, restVars, extVars, storeVars, aggVars, alertVars, trigVars>>

InitQueries ==
  /\ ItemIdle /\ BatchIdle /\ HistIdle /\ ExtIdle
  /\ StoreIdle /\ AggIdle /\ AlertIdle /\ TrigIdle
  /\ qcall = "none"
  /\ qhistory \in QueryLogs
  /\ qfile = qhistory
  /\ qbefore = <<qhistory, qfile>>
  /\ qcurrent = EmptyDict
  /\ qanswer = None

\* the calls of one day
NextQueries ==
  \/ \E st \in QueryStats : QueryAdd(st, 0)
  \/ QueryHighZero
  \/ \E current \in Currents : QueryComparison(current, 0)

SpecQueries == InitQueries /\ [][NextQueries]_vars

\* the same manager late in the evening, over a log of few entries
InitOvernight ==
  /\ ItemIdle /\ BatchIdle /\ HistIdle /\ ExtIdle
  /\ StoreIdle /\ AggIdle /\ AlertIdle /\ TrigIdle
  /\ qcall = "none"
  /\ qhistory \in OvernightLogs
  /\ qfile = qhistory
  /\ qbefore = <<qhistory, qfile>>
  /\ qcurrent = EmptyDict
  /\ qanswer = None

\* the calls of an evening and of the days after it
NextOvernight ==
  \/ \E st \in Stats : QueryAdd(st, MaxMidnights)
  \/ QueryHighZero
  \/ \E current \in Currents : QueryComparison(current, MaxMidnights)

SpecOvernight == InitOvernight /\ [][NextOvernight]_vars

\* ------------------------------------------------------------------------
\* The LLM classifier: a GeminiClassifier object whose classify_batch is
\* called any number of times, and the function classify_with_llm
\* (llm_classifier.py lines 256-304, webapp.py lines 65-89)
\* ------------------------------------------------------------------------
\* GeminiClassifier(api_key) returned: the cache is empty, lines 133-145
GeminiConstruct ==
  /\ lpc = "start"
  /\ lpc' = "constructed"
  /\ seen_hashes' = << >>
  /\ UNCHANGED <<llm_in, llm_out, lcount, coreVars, unitVars, runVars>>

\* classifier.classify_batch(news) on the constructed classifier, with the
\* outcomes `answers` of the model's calls
LLMClassifyBatch ==
  /\ lpc \in {"constructed", "classified", "raised"}
  /\ \E news \in SeqsUpTo(LLMItems, MaxLLMItems - lcount) :
       \E answers \in [1..Len(news) -> LLMAnswers] :
         \E words \in KeptWords(news) :
           LET batch == llm_classify_batch(seen_hashes, news, answers, words)
           IN  /\ lpc' = IF batch.raised = "none" THEN "classified" ELSE "raised"
               /\ llm_in' = news
               /\ llm_out' = IF batch.raised = "none" THEN batch.list ELSE << >>
               /\ seen_hashes' = batch.seen
               /\ lcount' = lcount + Len(news)
  /\ UNCHANGED <<coreVars, unitVars, runVars>>

\* classify_with_llm(news): its classifier is local to the call
ClassifyWithLLM ==
  /\ lpc = "start"
  /\ \E news \in SeqsUpTo(LLMItems, MaxLLMItems) :
       \E constructible \in BOOLEAN :
         \E answers \in [1..Len(news) -> LLMAnswers] :
           \E words \in KeptWords(news) :
             /\ lpc' = IF /\ constructible
                           /\ llm_classify_batch(<< >>, news, answers, words).raised = "none"
                        THEN "returned" ELSE "unclassified"
             /\ llm_in' = news
             /\ llm_out' = classify_with_llm(news, constructible, answers, words)
  /\ UNCHANGED <<seen_hashes, lcount, coreVars, unitVars, runVars>>

InitLLM ==
  /\ ItemIdle /\ BatchIdle /\ HistIdle
  /\ UnitIdle /\ RunIdle
  /\ lpc = "start" /\ seen_hashes = << >>
  /\ llm_in = << >> /\ llm_out = << >> /\ lcount = 0

NextLLM ==
  \/ GeminiConstruct
  \/ LLMClassifyBatch
  \/ ClassifyWithLLM

SpecLLM == InitLLM /\ [][NextLLM]_vars

\* ------------------------------------------------------------------------
\* Pipeline runs over one history.json: main and generate_dashboard_data
\* (main.py lines 76-152, webapp.py lines 63-137), each in a process of its
\* own. A step of a run is a part of it that reads or writes the file, with
\* what the run computes in its own memory before its next such part.
\* ------------------------------------------------------------------------
\* the run of process p goes on as the record r
RunGoes(p, r) == run_proc' = [run_proc EXCEPT ![p] = r]

\* the variables of the run that ended last
lastVars == <<run_pc, run_kind, run_clock, run_before, run_prev, run_detector, run_alerts, run_stats, history_comparison, consecutive_high_zero, run_triggers>>

\* a run begins in process p: from the scored batch to the statistics, then
\* get_history_manager() reads the file (main.py lines 76-120, webapp.py
\* lines 63-108). The batch holds an item: a run with no news returns
\* before it makes a detector (main.py lines 59-61, webapp.py lines 49-54).
RunBegins(p) ==
  /\ run_proc[p].pc = "idle"
  /\ run_count < MaxRunsBegun
  /\ \E in \in RunInputs :
       RunGoes(p, [pc |-> "loaded",
                   batch |-> run_batch(RunKind(p), run_detector, in.scored, in.macro),
                   history |-> load(run_file), before |-> run_recorded,
                   clock |-> << >>])
  /\ run_overlap' = (run_overlap \/ \E q \in Runners \ {p} : run_proc[q].pc # "idle")
  /\ run_count' = run_count + 1
  /\ UNCHANGED <<run_today, run_ticks, run_file, run_recorded, lastVars, coreVars, unitVars, llmVars>>

\* main()
RunMain == RunBegins("main")

\* generate_dashboard_data(), in either request
RunDashboard == \E p \in Runners \ {"main"} : RunBegins(p)

\* whether the readings of the clock are all that the history step of a run
\* on the log makes: five, or four when add_daily_record finds an entry
\* of today, the day of the fourth, and returns before line 78
LastReading(log, clock) ==
  \/ Len(clock) = 5
  \/ Len(clock) = 4 /\ HasToday(log, clock[4])

\* the next datetime.now() of the history step of the run of p: history.py
\* lines 85 and 86 in get_7day_comparison, 132 in
\* get_consecutive_high_zero_days, 50 and 78 in add_daily_record (main.py
\* lines 128-141, webapp.py lines 115-129). With the last one the run has
\* the answers of its queries and its history is the one add_daily_record
\* gives to _save.
RunHistory(p) ==
  /\ run_proc[p].pc = "loaded"
  /\ LET r == run_proc[p]
         clock == Append(r.clock, run_today)
         answers == run_queries(r.history, clock, r.batch.stats)
     IN  RunGoes(p, IF LastReading(r.history, clock)
                    THEN [r EXCEPT !.pc = "updated", !.clock = clock,
                                   !.history = add_daily_record(r.history, clock[4], clock[Len(clock)],
                                                                r.batch.stats)]
                           @@ [comparison |-> answers.comparison, days |-> answers.days]
                    ELSE [r EXCEPT !.clock = clock])
  /\ UNCHANGED <<run_today, run_ticks, run_count, run_file, run_recorded, run_overlap, lastVars, coreVars, unitVars, llmVars>>

\* _save: open(HISTORY_FILE, "w") (history.py line 37)
RunTruncate(p) ==
  /\ run_proc[p].pc = "updated"
  /\ run_file' = save_open(run_file)
  /\ RunGoes(p, [run_proc[p] EXCEPT !.pc = "opened"])
  /\ UNCHANGED <<run_today, run_ticks, run_count, run_recorded, run_overlap, lastVars, coreVars, unitVars, llmVars>>

\* _save: json.dump and close (history.py lines 37-38), then
\* detect_triggers (main.py lines 146-152): the run ends
RunEnds(p) ==
  /\ run_proc[p].pc = "opened"
  /\ LET r == run_proc[p]
     IN  /\ run_file' = save_write(run_file, r.history)
         /\ run_recorded' = IF Readable(run_file') THEN run_file'.doc ELSE run_recorded
         /\ run_pc' = "done"
         /\ run_kind' = RunKind(p)
         /\ run_clock' = r.clock
         /\ run_before' = r.before
         /\ run_prev' = IF run_pc = "done"
                        THEN [clock |-> run_clock, stats |-> run_stats,
                              days |-> consecutive_high_zero,
                              comparison |-> history_comparison,
                              detector |-> run_detector]
                        ELSE None
         /\ run_detector' = r.batch.detector
         /\ run_alerts' = r.batch.alerts
         /\ run_stats' = r.batch.stats
         /\ history_comparison' = r.comparison
         /\ consecutive_high_zero' = r.days
         /\ run_triggers' = run_detect(r.batch.stats, r.days)
  /\ RunGoes(p, NoRun)
  /\ UNCHANGED <<run_today, run_ticks, run_count, run_overlap, coreVars, unitVars, llmVars>>

\* the calendar day changes, at any moment of the runs that are being made
RunNextDay ==
  /\ run_ticks < MaxRunTicks
  /\ \E step \in RunDaySteps : run_today' = run_today + step
  /\ run_ticks' = run_ticks + 1
  /\ UNCHANGED <<run_count, run_file, run_recorded, run_proc, run_overlap, lastVars, coreVars, unitVars, llmVars>>

InitPipeline ==
  /\ ItemIdle /\ BatchIdle /\ HistIdle
  /\ UnitIdle /\ LLMIdle
  /\ \E f \in RunFiles : NoRuns("ready", f)

NextPipeline ==
  \/ RunMain
  \/ RunDashboard
  \/ \E p \in Runners : RunHistory(p)
  \/ \E p \in Runners : RunTruncate(p)
  \/ \E p \in Runners : RunEnds(p)
  \/ RunNextDay

SpecPipeline == InitPipeline /\ [][NextPipeline]_vars

\* ------------------------------------------------------------------------
\* Properties of the pipeline (specification Spec)
\* ------------------------------------------------------------------------
\* C1: the score calculate_impact_score returns is an integer with
\* -10 <= score <= 10 for any text, any category and any origin, and every
\* item score_news_batch returns carries an impact_score in that range.
C1_ScoreInRange ==
  /\ pc = "scored" => sc_out[1] \in -10..10
  /\ bpc = "scored" =>
       \A i \in 1..Len(scored) : scored[i]["impact_score"] \in -10..10

\* a scored item whose keywords, category and origin lead beyond +10
C1_Witness ==
  /\ pc = "scored"
  /\ Get(sc_in, "category", "absent") = "market"
  /\ impact(sc_in).unclamped > 10
  /\ sc_out[1] = 10

\* the table entries whose keyword occurs in the text, letter case ignored
FoundIn(table, text) ==
  LET text_lower == Lower(text)
  IN  {i \in 1..Len(table) : Contains(Lower(table[i].kw), text_lower)}

RECURSIVE WeightSum(_, _)
WeightSum(table, idx) ==
  IF idx = {} THEN 0
  ELSE LET i == CHOOSE j \in idx : TRUE
       IN  table[i].val + WeightSum(table, idx \ {i})

\* S: the weights of every positive and negative keyword found, each once
KeywordSum(text) ==
  WeightSum(positive_keywords, FoundIn(positive_keywords, text))
    + WeightSum(negative_keywords, FoundIn(negative_keywords, text))

\* t is x * tenths / 10 with its fractional part dropped (toward zero)
IsTrunc(t, x, tenths) ==
  /\ t * x >= 0
  /\ 10 * Abs(t) <= Abs(x) * tenths
  /\ Abs(x) * tenths < 10 * (Abs(t) + 1)

\* C2: calculate_impact_score returns clamp(trunc(trunc(S * c) * o), -10, 10),
\* S the sum of the weights of all keywords found (overlapping ones included),
\* c = 1.2 / 1.0 / 0.8 for category market / sector / theme, o = 1.1 for
\* origin foreign and 1.0 otherwise, trunc dropping the fraction toward zero;
\* one +3 keyword with category market and origin domestic gives 3.
C2_ScoreFormula ==
  (pc = "scored" /\ Get(sc_in, "category", "absent") \in {"market", "sector", "theme"}) =>
    LET S == KeywordSum(sc_in["text"])
        c == CASE sc_in["category"] = "market" -> 12
               [] sc_in["category"] = "sector" -> 10
               [] sc_in["category"] = "theme"  -> 8
        o == IF Get(sc_in, "source", "absent") = "foreign" THEN 11 ELSE 10
        R == (-2 * Abs(S))..(2 * Abs(S))
    IN  /\ \E t1 \in R, t2 \in R :
             /\ IsTrunc(t1, S, c)
             /\ IsTrunc(t2, t1, o)
             /\ sc_out[1] = (IF t2 > 10 THEN 10 ELSE IF t2 < -10 THEN -10 ELSE t2)
        /\ (S = 3 /\ c = 12 /\ o = 10) => sc_out[1] = 3

\* a negative sum whose product with 0.8 has a fraction, on a foreign item,
\* with a keyword contained in another one both counted
C2_Witness ==
  /\ pc = "scored"
  /\ Get(sc_in, "category", "absent") = "theme"
  /\ Get(sc_in, "source", "absent") = "foreign"
  /\ KeywordSum(sc_in["text"]) = -3
  /\ sc_out[1] = -2

\* name is the name of the first group of the table with a keyword in the text
IsFirstMatch(table, text, name) ==
  \E g \in 1..Len(table) :
    /\ AnyIn(table[g].kws, text)
    /\ \A h \in 1..(g - 1) : ~AnyIn(table[h].kws, text)
    /\ name = table[g].name

SomeGroup(table, text) == \E g \in 1..Len(table) : AnyIn(table[g].kws, text)

\* C3: classify_news applies the tables in a fixed priority: no keyword ->
\* market, no sub_category; only sector keywords -> sector with the first
\* matching sector group; a theme keyword -> theme with the first matching
\* theme group, overriding sector; a market keyword -> market with no
\* sub_category, overriding both. sub_category is absent iff category is
\* market.
C3_Priority ==
  (cls # EmptyDict) =>
    LET m  == AnyIn(market_keywords, news_text)
        th == SomeGroup(theme_keywords, news_text)
        se == SomeGroup(sector_keywords, news_text)
        cat == cls["category"]
        sub == cls["sub_category"]
    IN  /\ m => (cat = "market" /\ sub = None)
        /\ (~m /\ th) => (cat = "theme" /\ IsFirstMatch(theme_keywords, news_text, sub))
        /\ (~m /\ ~th /\ se) =>
             (cat = "sector" /\ IsFirstMatch(sector_keywords, news_text, sub))
        /\ (~m /\ ~th /\ ~se) => (cat = "market" /\ sub = None)
        /\ (sub = None) <=> (cat = "market")

\* a text with keywords of two sector groups and of a theme group, classified
C3_Witness ==
  /\ cls # EmptyDict
  /\ ~AnyIn(market_keywords, news_text)
  /\ Cardinality({g \in 1..Len(sector_keywords) :
                    AnyIn(sector_keywords[g].kws, news_text)}) >= 2
  /\ SomeGroup(theme_keywords, news_text)
  /\ cls["category"] = "theme"

\* C4: classify_news matches case-insensitively: two texts that differ only
\* in letter case receive the same category and sub_category.
C4_CaseInsensitive ==
  (cls # EmptyDict) =>
    /\ cls["category"] = cls_alt["category"]
    /\ cls["sub_category"] = cls_alt["sub_category"]

\* the fields the stages define
StageFields ==
  {"category", "category_name", "sub_category", "impact_score", "score_reason"}

\* C5: classify_news_batch followed by score_news_batch returns one output
\* item per input item, in input order; text and origin keep their input
\* values, every other caller-supplied field that is not a stage-defined field
\* is present with its input value; the input items are not modified.
C5_BatchFrame ==
  /\ news_list = news_list0
  /\ bpc = "classified" => Len(classified) = Len(news_list)
  /\ bpc = "scored" =>
       /\ Len(scored) = Len(news_list)
       /\ \A i \in 1..Len(news_list) :
            /\ scored[i]["text"] = news_list[i]["text"]
            /\ "source" \in DOMAIN news_list[i] =>
                  scored[i]["source"] = news_list[i]["source"]
            /\ \A k \in (DOMAIN news_list[i]) \ StageFields :
                  k \in DOMAIN scored[i] /\ scored[i][k] = news_list[i][k]

\* a scored batch of two different items with a url, a title and a category
\* of the caller's that the classification replaced
C5_Witness ==
  /\ bpc = "scored"
  /\ Len(news_list) = 2
  /\ news_list[1] # news_list[2]
  /\ "url" \in DOMAIN news_list[1] /\ "title" \in DOMAIN news_list[1]
  /\ "category" \in DOMAIN news_list[2]
  /\ scored[2]["category"] # news_list[2]["category"]

\* ------------------------------------------------------------------------
\* Properties of the history log
\* ------------------------------------------------------------------------
ValueFields ==
  {"total_score", "zero_ratio", "plus2_ratio", "minus2_ratio", "news_count", "macro_ratio"}

\* no two entries of the log have the same date
OnePerDate(log) ==
  \A i, j \in 1..Len(log) : (i # j) => (log[i]["date"] # log[j]["date"])

\* C6: starting from an empty log the log holds at most one entry per date;
\* a call on a date that has an entry replaces that entry's value fields by
\* the new values and leaves the number of entries unchanged; a call on a
\* date without an entry adds exactly one entry (the one of that date).
C6_Upsert ==
  [][ (calls' = calls + 1) =>
        LET before == history
            after  == history'
            st     == last_stats'
        IN  /\ Readable(file') /\ file'.doc = after
            /\ OnePerDate(after)
            /\ HasToday(before, today) =>
                 /\ Len(after) = Len(before)
                 /\ \A i \in 1..Len(before) :
                      IF IsToday(before[i], today)
                      THEN /\ after[i]["date"] = today
                           /\ \A f \in ValueFields : after[i][f] = st[f]
                      ELSE after[i] = before[i]
            /\ ~HasToday(before, today) =>
                 /\ Cardinality({i \in 1..Len(after) : IsToday(after[i], today)}) = 1
                 /\ \A i \in 1..Len(after) :
                      IF IsToday(after[i], today)
                      THEN \A f \in ValueFields : after[i][f] = st[f]
                      ELSE \E j \in 1..Len(before) : before[j] = after[i]
                 /\ Len(after) <= Len(before) + 1
    ]_vars

\* a second call of a day has replaced the values of the day's entry, next to
\* an entry of an earlier day
C6_Witness ==
  /\ calls = 2
  /\ last_path = "update"
  /\ last_stats = StatsLively
  /\ Len(file.doc) = 2
  /\ file.doc[2] = Merge("date" :> today, StatsLively)

\* C7: every successful add_daily_record call prunes, whether it appends or
\* updates: for any loaded log, when the call returns no entry dated more
\* than 30 days before today remains in the history or in the saved log.
C7_AlwaysPrunes ==
  (calls > 0) =>
    /\ \A i \in 1..Len(history) : history[i]["date"] >= today - 30
    /\ \A i \in 1..Len(file.doc) : file.doc[i]["date"] >= today - 30

\* C8: with calls on non-decreasing dates from an empty log, immediately
\* after every call the log holds no entry dated more than 30 days before the
\* call's date; an entry dated exactly 30 days before is kept; the log never
\* holds more than 31 entries. The call's date is the date of the call's
\* first reading of the clock (line 50), which the call gives to its entry.
C8_Retention ==
  [][ (calls' = calls + 1) =>
        /\ file'.doc = history'
        /\ \A i \in 1..Len(history') : history'[i]["date"] >= today - 30
        /\ \A i \in 1..Len(history) :
             (history[i]["date"] >= today - 30) =>
                \E j \in 1..Len(history') : history'[j]["date"] = history[i]["date"]
        /\ Len(history') <= 31
    ]_vars

\* what holds: the cutoff is 30 days before the second reading of the clock
\* (line 78), the day on which the call prunes and returns; the entries from
\* that cutoff on are kept and the log never holds more than 31 entries
C8_RetentionAtReturn ==
  [][ (calls' = calls + 1) =>
        /\ file'.doc = history'
        /\ \A i \in 1..Len(history') : history'[i]["date"] >= today' - 30
        /\ \A i \in 1..Len(history) :
             (history[i]["date"] >= today' - 30) =>
                \E j \in 1..Len(history') : history'[j]["date"] = history[i]["date"]
        /\ Len(history') <= 31
    ]_vars

\* C9: a load that runs concurrently with another run's save never observes
\* a partially written log: it obtains the complete log as it was before the
\* save or the complete log after it, never an empty or truncated content.
C9_NoPartialRead ==
  \A p \in Callers :
    (rpc[p] = "loaded") =>
      (seen[p].got = seen[p].before \/ seen[p].got \in seen[p].saving)

\* C10: when two runs overlap on the load / add_daily_record / save cycle, the
\* persisted result is the complete log of the run whose save finishes last,
\* never a mixture and never two entries for the same date.
C10_LastWriteWins ==
  (saved /\ \A p \in Callers : rpc[p] \in {"idle", "done"}) =>
    /\ Readable(file)
    /\ \E p \in Callers : rpc[p] = "done" /\ file.doc = rhist[p]
    /\ OnePerDate(file.doc)

\* ------------------------------------------------------------------------
\* Properties of a HistoryManager over any content (specification SpecStore)
\* ------------------------------------------------------------------------
\* the exceptions of the model
Exceptions ==
  {"JSONDecodeError", "IsADirectoryError", "PermissionError",
   "UnicodeDecodeError", "TypeError", "AttributeError"}

\* C11: constructing a HistoryManager never fails because of the log: a
\* missing, unreadable or corrupt log (any content that is not a list of
\* entries) gives an empty history, and the queries and add_daily_record
\* calls made on that manager afterwards succeed.
C11_CorruptLogIsEmpty ==
  /\ mstatus \notin Exceptions
  /\ mstatus = "ok" /\ mcount = 0 /\ content.kind # "entries"
       => mhistory = EmptyHistory
  /\ moutcome \notin Exceptions

\* ------------------------------------------------------------------------
\* Properties of the AlertDetector (specification SpecAlerts)
\* ------------------------------------------------------------------------
\* the alerts of one type, in the order returned
OfType(as, type) == SelectSeq(as, LAMBDA a : a.type = type)

\* text has part somewhere
HasPart(text, part) == Contains(part, text)

\* the sum of the total scores (in tenths) of records from..to of the
\* detector's history; the average has its sign
TotalOver(from, to) ==
  Sum([i \in 1..(to - from + 1) |-> detector_history[from + i - 1].total_score])

\* C12: detect_alerts emits a daily_change alert if and only if the history
\* holds at least one record and |delta| >= 3, where delta is the current
\* total_score minus the total_score of the record added last; the severity
\* is warning if and only if |delta| >= 5 and info otherwise (exactly 3 gives
\* info, exactly 5 gives warning); the message reports a rise when delta > 0
\* and a fall when delta < 0.
C12_DailyChange ==
  dpc = "detected" =>
    LET n == Len(detector_history)
        delta == current_scores.total_score
                   - (IF n >= 1 THEN detector_history[n].total_score ELSE 0)
        daily == OfType(alerts, "daily_change")
    IN  /\ Len(daily) <= 1
        /\ Len(daily) = 1 <=> (n >= 1 /\ Abs(delta) >= 30)
        /\ Len(daily) = 1 =>
             /\ daily[1].severity = IF Abs(delta) >= 50 THEN "warning" ELSE "info"
             /\ delta > 0 => HasPart(daily[1].message, direction_up)
             /\ delta < 0 => HasPart(daily[1].message, direction_down)

\* C13: detect_alerts emits an ma_reversal alert if and only if the history
\* is longer than the window (3) and the average total_score of the last 3
\* records and the average of the 3 records before the last one are in
\* opposite sign classes (one >= 0, the other < 0); the severity is warning
\* when the latest average is negative and info when it is not.
C13_MaReversal ==
  dpc = "detected" =>
    LET n == Len(detector_history)
        W == ALERT_MA_WINDOW
        reversal == OfType(alerts, "ma_reversal")
        latest == TotalOver(n - W + 1, n)
        before == TotalOver(n - W, n - 1)
    IN  /\ Len(reversal) <= 1
        /\ n <= W => Len(reversal) = 0
        /\ n > W =>
             /\ Len(reversal) = 1 <=> ((latest >= 0) # (before >= 0))
             /\ Len(reversal) = 1 =>
                  reversal[1].severity = IF latest < 0 THEN "warning" ELSE "info"

\* C14: detect_alerts emits a domestic_foreign_gap alert if and only if
\* |gap| >= 5 for the gap of the current record, whatever the history holds;
\* the severity is info when the gap is positive and warning when it is
\* negative; domestic 6.0 and foreign 0 (gap 6.0) give an info alert.
C14_GapAlert ==
  dpc = "detected" =>
    LET gap == current_scores.domestic_foreign_gap
        gaps_found == OfType(alerts, "domestic_foreign_gap")
    IN  /\ Len(gaps_found) <= 1
        /\ Len(gaps_found) = 1 <=> Abs(gap) >= 50
        /\ Len(gaps_found) = 1 =>
             gaps_found[1].severity = IF gap > 0 THEN "info" ELSE "warning"
        /\ current_scores.domestic_score = 60 /\ current_scores.foreign_score = 0
             => gap = 60 /\ Len(gaps_found) = 1 /\ gaps_found[1].severity = "info"

\* detect_alerts returned an info alert for domestic 6.0 and foreign 0 on a
\* detector that holds records
C14_Witness ==
  /\ dpc = "detected"
  /\ detector_history # << >>
  /\ current_scores.domestic_score = 60 /\ current_scores.foreign_score = 0
  /\ \E i \in 1..Len(alerts) :
       alerts[i].type = "domestic_foreign_gap" /\ alerts[i].severity = "info"

\* ------------------------------------------------------------------------
\* Properties of TriggerDetector.detect (specification SpecTriggers)
\* ------------------------------------------------------------------------
\* the rule of a trigger holds for the arguments a, whose ratios are ints
RuleHolds(id, a) ==
  CASE id = "A" -> a.zero_ratio.int < 50
                     /\ (a.plus2_ratio.int > 30 \/ a.minus2_ratio.int > 30)
    [] id = "B" -> a.zero_ratio.int > 80 /\ a.consecutive_high_zero_days >= 2
    [] id = "C" -> a.plus2_ratio.int > 50 \/ a.minus2_ratio.int > 50
    [] id = "D" -> a.macro_ratio.int > 30

\* the ids of the triggers returned, in their order
TriggerIds == [i \in 1..Len(triggers) |-> triggers[i].id]

\* zero_ratio 100 on the second day of a run, nothing else
OnlyNoise(a) ==
  /\ a.zero_ratio = PyInt(100) /\ a.consecutive_high_zero_days = 2
  /\ a.plus2_ratio = PyInt(0) /\ a.minus2_ratio = PyInt(0) /\ a.macro_ratio = PyInt(0)

\* C15: detect returns exactly the triggers whose rule holds, in the order
\* A, B, C, D, each with fired = true: A iff zero_ratio < 50 and (plus2_ratio
\* > 30 or minus2_ratio > 30); B iff zero_ratio > 80 and
\* consecutive_high_zero_days >= 2; C iff plus2_ratio > 50 or minus2_ratio >
\* 50; D iff macro_ratio > 30. With zero_ratio 100, two days and the other
\* ratios 0, B is the only trigger returned.
C15_Triggers ==
  tpc = "detected" =>
    /\ TriggerIds = SelectSeq(<<"A", "B", "C", "D">>,
                              LAMBDA id : RuleHolds(id, trigger_args))
    /\ \A i \in 1..Len(triggers) : triggers[i].fired = TRUE
    /\ OnlyNoise(trigger_args) => TriggerIds = <<"B">>

\* detect returned B alone for zero_ratio 100 on the second day
C15_Witness ==
  /\ tpc = "detected"
  /\ OnlyNoise(trigger_args)
  /\ Len(triggers) = 1 /\ triggers[1].id = "B" /\ triggers[1].fired = TRUE

\* ------------------------------------------------------------------------
\* Properties of calculate_aggregate_scores (specification SpecAggregate)
\* ------------------------------------------------------------------------
\* C16: calculate_aggregate_scores on an empty batch returns the zeroed
\* record (all six fields 0) and raises no error.
C16_EmptyBatch ==
  apc # "start" /\ scored_news_list = << >> =>
    /\ apc = "done"
    /\ DOMAIN aggregates = {"total_score", "domestic_score", "foreign_score",
                            "domestic_foreign_gap", "news_count",
                            "zero_score_count"}
    /\ \A f \in DOMAIN aggregates : aggregates[f] = 0

\* the empty batch has been aggregated
C16_Witness ==
  apc = "done" /\ scored_news_list = << >> /\ aggregates # None

\* every item of the batch carries a score
AllScored ==
  \A i \in 1..Len(scored_news_list) : "impact_score" \in DOMAIN scored_news_list[i]

\* the impact_scores of the items of an origin
OriginScores(source) ==
  LET items == SelectSeq(scored_news_list,
                        LAMBDA n : "source" \in DOMAIN n /\ n["source"] = source)
  IN  [i \in 1..Len(items) |-> items[i]["impact_score"]]

\* r tenths is sum / n rounded to one decimal (to either side at a tie)
IsRoundedMean(r, sum, n) == 2 * Abs(10 * sum - r * n) <= n

\* r tenths is the rounded mean of the scores, 0 for no score
IsScoreOf(r, scores) ==
  IF scores = << >> THEN r = 0
  ELSE IsRoundedMean(r, Sum(scores), Len(scores))

\* C17: for a non-empty batch total_score is the mean of all impact_scores
\* rounded to one decimal, domestic_score and foreign_score are the means
\* over the items of that origin rounded to one decimal, and 0 (no error)
\* for an origin without items; news_count is the number of items and
\* zero_score_count the number of items whose impact_score is 0.
C17_Means ==
  apc # "start" /\ scored_news_list # << >> /\ AllScored =>
    /\ apc = "done"
    /\ IsScoreOf(aggregates.total_score,
                 [i \in 1..Len(scored_news_list) |->
                    scored_news_list[i]["impact_score"]])
    /\ IsScoreOf(aggregates.domestic_score, OriginScores("domestic"))
    /\ IsScoreOf(aggregates.foreign_score, OriginScores("foreign"))
    /\ aggregates.news_count = Len(scored_news_list)
    /\ aggregates.zero_score_count =
         Cardinality({i \in 1..Len(scored_news_list) :
                        scored_news_list[i]["impact_score"] = 0})

\* three domestic items with the scores 1, 0, 0 and no foreign item have been
\* aggregated: domestic_score is 0.3 and foreign_score is 0
C17_Witness ==
  /\ apc = "done"
  /\ Len(scored_news_list) = 3
  /\ OriginScores("foreign") = << >>
  /\ Sum(OriginScores("domestic")) = 1
  /\ aggregates.domestic_score = 3 /\ aggregates.foreign_score = 0
  /\ aggregates.zero_score_count = 2

\* C18: in every record returned by calculate_aggregate_scores,
\* domestic_foreign_gap equals the record's domestic_score minus the
\* record's foreign_score.
C18_GapIsDifference ==
  apc = "done" =>
    aggregates.domestic_foreign_gap
      = aggregates.domestic_score - aggregates.foreign_score

\* ------------------------------------------------------------------------
\* Properties of the queries of a HistoryManager (specification SpecQueries)
\* ------------------------------------------------------------------------
\* the log holds an entry of the date d
HasEntryOn(d) == \E i \in 1..Len(qhistory) : qhistory[i]["date"] = d

\* the entry of the date d
EntryOn(d) == qhistory[CHOOSE i \in 1..Len(qhistory) : qhistory[i]["date"] = d]

\* the dates, other than today, of the entries that lie in the run of
\* entries above 80 that starts at the latest entry before today
HighZeroRun ==
  LET others == {i \in 1..Len(qhistory) : qhistory[i]["date"] # today}
      High(i) == qhistory[i]["zero_ratio"].int > 80
  IN  {i \in others :
         /\ High(i)
         /\ \A j \in others :
              qhistory[j]["date"] > qhistory[i]["date"] => High(j)}

\* C19: get_consecutive_high_zero_days returns the length of the run of
\* entries, taken in descending date order and skipping today's entry, whose
\* zero_ratio is > 80, ending at the first entry whose zero_ratio is not > 80
\* (exactly 80 ends the run); the run counts entries, not calendar days; the
\* log is not modified.
C19_HighZeroRun ==
  qcall = "high_zero_days" =>
    /\ qanswer = Cardinality(HighZeroRun)
    /\ <<qhistory, qfile>> = qbefore

\* the run of yesterday's entry and the entry of six days ago, with no entry
\* on the days between, ended by an entry at exactly 80, has been counted as
\* 2 on a log that holds an entry of today
C19_Witness ==
  /\ qcall = "high_zero_days"
  /\ qanswer = 2
  /\ HasEntryOn(today) /\ EntryOn(today)["zero_ratio"].int <= 80
  /\ HasEntryOn(today - 1) /\ EntryOn(today - 1)["zero_ratio"].int > 80
  /\ \A d \in (today - 5)..(today - 2) : ~HasEntryOn(d)
  /\ HasEntryOn(today - 6) /\ EntryOn(today - 6)["zero_ratio"].int > 80
  /\ HasEntryOn(today - 7) /\ EntryOn(today - 7)["zero_ratio"].int = 80

\* the entries dated in [day - 7, day)
LastSevenDays(day) ==
  SelectSeq(qhistory, LAMBDA r : day - 7 <= r["date"] /\ r["date"] < day)

\* the sum of a field over those entries
SevenDaySum(day, field) ==
  Sum([i \in 1..Len(LastSevenDays(day)) |-> LastSevenDays(day)[i][field].int])

\* r / m is sum / n rounded to the decimals of m (to either side at a tie)
IsMeanTo(r, sum, n, m) == 2 * Abs(m * sum - r * n) <= n

\* the answer of the last get_7day_comparison is the comparison over the
\* entries dated in [day - 7, day)
ComparesOver(day) ==
  LET n == Len(LastSevenDays(day))
  IN  /\ qanswer = [has_history |-> FALSE, days_count |-> 0] <=> n = 0
      /\ n > 0 =>
           /\ qanswer.has_history = TRUE
           /\ qanswer.days_count = n /\ n <= 7
           /\ IsMeanTo(qanswer.avg_total_score, SevenDaySum(day, "total_score"), n, 100)
           /\ IsMeanTo(qanswer.avg_zero_ratio, SevenDaySum(day, "zero_ratio"), n, 10)
           /\ IsMeanTo(qanswer.avg_plus2_ratio, SevenDaySum(day, "plus2_ratio"), n, 10)
           /\ IsMeanTo(qanswer.avg_minus2_ratio, SevenDaySum(day, "minus2_ratio"), n, 10)
           /\ qanswer.current_total_score = qcurrent.total_score
           /\ qanswer.current_zero_ratio = qcurrent.zero_ratio
           /\ qanswer.current_plus2_ratio = qcurrent.plus2_ratio
           /\ qanswer.current_minus2_ratio = qcurrent.minus2_ratio

\* C20: get_7day_comparison returns the no-history marker (has_history
\* false, days_count 0) if and only if the log has no entry dated in
\* [today-7, today); otherwise days_count is the number of entries in that
\* range (at most 7, today's entry not counted), the avg_* fields are the
\* means over those entries without the caller's current values, the
\* current_* fields echo the caller's values; the log is not modified.
\* Today is the day on which the call returned, or the day before it when
\* the call began before midnight.
C20_Comparison ==
  qcall = "comparison" =>
    /\ ComparesOver(today) \/ ComparesOver(today - 1)
    /\ <<qhistory, qfile>> = qbefore

\* what holds: a call during which the day does not change compares over
\* the entries dated in [today-7, today) and does not modify the log
C20_ComparisonOneDay ==
  [][ (qcall' = "comparison" /\ today' = today) =>
        /\ ComparesOver(today)'
        /\ <<qhistory', qfile'>> = <<qhistory, qfile>> ]_vars

\* ------------------------------------------------------------------------
\* Properties of a batch with a failing item (specification Spec)
\* ------------------------------------------------------------------------
\* the items of the caller's batch that carry a text
WithText == {i \in 1..Len(news_list0) : "text" \in DOMAIN news_list0[i]}

\* C21: a failure while classifying or scoring one item of a batch (an item
\* without a text field) does not abort the batch: the failing item is
\* skipped, every other item is classified and scored, and the count is the
\* number of items actually scored.
C21_FailingItemSkipped ==
  bpc # "start" /\ bpc # "idle" =>
    /\ bpc # "raised"
    /\ Len(classified) = Cardinality(WithText)
    /\ bpc = "scored" => Len(scored) = Cardinality(WithText)

\* ------------------------------------------------------------------------
\* Properties of absent fields (specification SpecAggregate)
\* ------------------------------------------------------------------------
\* the impact_scores of the items that are domestic or have no origin
DomesticOrNoOrigin ==
  LET items == SelectSeq(scored_news_list,
                        LAMBDA n : "source" \notin DOMAIN n
                                     \/ n["source"] = "domestic")
  IN  [i \in 1..Len(items) |-> items[i]["impact_score"]]

\* C22: an item with an absent optional field is processed with a neutral
\* default: an item with no origin is treated as domestic when it is
\* aggregated, that is, it is counted in the domestic subset (and a record
\* without a numeric field counts as 0 in the detector and the queries).
C22_NoOriginIsDomestic ==
  apc = "done" /\ scored_news_list # << >> =>
    IsScoreOf(aggregates.domestic_score, DomesticOrNoOrigin)

\* ------------------------------------------------------------------------
\* Properties of the random choice (specification Spec)
\* ------------------------------------------------------------------------
\* items i and j of the classified batch have the same text, category and
\* origin
SameInputs(i, j) ==
  /\ classified[i]["text"] = classified[j]["text"]
  /\ classified[i]["category"] = classified[j]["category"]
  /\ classified[i]["source"] = classified[j]["source"]

\* no positive and no negative keyword occurs in the text
NoKeywordIn(text) ==
  FoundIn(positive_keywords, text) = {} /\ FoundIn(negative_keywords, text) = {}

\* C23: the numeric score is deterministic: two calls of
\* calculate_impact_score on items with the same text, category and origin
\* return the same score, whatever was scored before and whatever else the
\* batch holds; the random choice affects only the reason, and only when the
\* score is 0 and no positive and no negative keyword matched.
C23_ScoreDeterministic ==
  bpc = "scored" =>
       \A i, j \in 1..Len(scored) :
         SameInputs(i, j) =>
           /\ scored[i]["impact_score"] = scored[j]["impact_score"]
           /\ scored[i]["score_reason"] # scored[j]["score_reason"] =>
                /\ scored[i]["impact_score"] = 0
                /\ NoKeywordIn(scored[i]["text"])

\* two items with the same text, category and origin were scored in one
\* batch with the same score 0 and two different phrases of the pool
C23_Witness ==
  /\ bpc = "scored" /\ Len(scored) = 2
  /\ SameInputs(1, 2)
  /\ scored[1]["impact_score"] = 0 /\ scored[2]["impact_score"] = 0
  /\ scored[1]["score_reason"] # scored[2]["score_reason"]
  /\ \E k \in 1..Len(neutral_reasons) : scored[1]["score_reason"] = neutral_reasons[k]

\* ------------------------------------------------------------------------
\* Properties of the LLM classifier (specification SpecLLM)
\* ------------------------------------------------------------------------
\* the item carries a category and an impact_score within -10..10
MeetsContract(item) ==
  /\ "category" \in DOMAIN item
  /\ "impact_score" \in DOMAIN item
  /\ IsPyInt(item["impact_score"])
  /\ item["impact_score"].int \in SCORE_MIN..SCORE_MAX

\* the item's classification was served from the cache of similar articles
FromCache(item) ==
  /\ "score_reason" \in DOMAIN item
  /\ Len(item["score_reason"]) >= Len(SimilarPrefix)
  /\ SubSeq(item["score_reason"], 1, Len(SimilarPrefix)) = SimilarPrefix

\* C24: every item returned by GeminiClassifier.classify_batch and by
\* classify_with_llm carries a category and an integer impact_score within
\* -10..10, also when it is served from the cache of similar articles, and
\* also when the classifier cannot be constructed or the model call fails.
C24_LLMContract ==
  lpc \in {"classified", "returned", "unclassified"} =>
    \A i \in 1..Len(llm_out) : MeetsContract(llm_out[i])

\* the part of the contract that holds: an item classified from a fresh
\* answer of the model, or by the fallback of a failed call, has the key
\* category (null when the model answered null) and an impact_score that
\* is a number from -10 to 10 (a float when the model answered a float)
C24_FreshMeetsContract ==
  lpc \in {"classified", "returned"} =>
    \A i \in 1..Len(llm_out) :
       ~FromCache(llm_out[i]) =>
         /\ HasKey(llm_out[i], "category")
         /\ "impact_score" \in DOMAIN llm_out[i]
         /\ IsNumber(llm_out[i]["impact_score"])
         /\ ~NumBelow(NumberOf(llm_out[i]["impact_score"]), SCORE_MIN)
         /\ ~NumAbove(NumberOf(llm_out[i]["impact_score"]), SCORE_MAX)

\* a classify_batch call returned an item served from the cache whose
\* impact_score is the model's unclamped 15
C24_CacheOutOfRange ==
  /\ lpc = "classified"
  /\ \E i \in 1..Len(llm_out) :
       /\ FromCache(llm_out[i])
       /\ "impact_score" \in DOMAIN llm_out[i]
       /\ llm_out[i]["impact_score"] = PyInt(15)

\* ------------------------------------------------------------------------
\* Properties of the detector's history (specification SpecAlerts)
\* ------------------------------------------------------------------------
\* C25: AlertDetector's history is append-only: every add_daily_score call
\* appends exactly one record, equal to an earlier one or not, and leaves
\* the earlier records unchanged; detect_alerts never changes the history,
\* and a repeated call with the same current record returns the same alerts.
C25_AppendOnly ==
  [][ /\ dpc' = "ready" =>
           /\ Len(detector_history') = Len(detector_history) + 1
           /\ SubSeq(detector_history', 1, Len(detector_history)) = detector_history
      /\ dpc' = "detected" =>
           /\ detector_history' = detector_history
           /\ dpc = "detected" /\ current_scores' = current_scores => alerts' = alerts
    ]_vars

\* add_daily_score was called twice with the same record and the history
\* holds it twice
C25_Witness ==
  /\ dpc = "ready"
  /\ Len(detector_history) >= 2
  /\ detector_history[Len(detector_history)] = detector_history[Len(detector_history) - 1]

\* ------------------------------------------------------------------------
\* Properties of the reason (specification Spec)
\* ------------------------------------------------------------------------
\* the reason is the template followed by one or more of the keywords, in
\* their order, and the closing bracket
Lists(reason, template, kws) ==
  \E n \in 1..Len(kws) :
    reason = template \o JoinComma(Take(kws, n)) \o reason_templates.close

\* the reason is the mixed template listing keywords of both polarities
ListsBoth(reason, positive, negative) ==
  \E n \in 1..Len(positive), m \in 1..Len(negative) :
    reason = reason_templates.mixed \o JoinComma(Take(positive, n))
               \o reason_templates.mixed_sep \o JoinComma(Take(negative, m))
               \o reason_templates.close

\* the reason calculate_impact_score may return for a score and the matched
\* keywords, band by band
ReasonOfBand(score, reason, positive, negative) ==
  LET T == reason_templates IN
  /\ score >= 5 => Lists(reason, T.strong_pos, positive)
  /\ score \in 2..4 => Lists(reason, T.moderate_pos, positive)
  /\ score = 1 => Lists(reason, T.weak_pos, positive)
  /\ score <= -5 => Lists(reason, T.strong_neg, negative)
  /\ score \in -4..-2 => Lists(reason, T.moderate_neg, negative)
  /\ score = -1 => Lists(reason, T.weak_neg, negative)
  /\ score = 0 /\ positive # << >> /\ negative # << >> => ListsBoth(reason, positive, negative)
  /\ score = 0 /\ positive = << >> /\ negative = << >> =>
       \E k \in 1..5 : reason = neutral_reasons[k]
  /\ score = 0 /\ (positive = << >>) # (negative = << >>) => reason = T.insufficient

\* C26: the reason returned by calculate_impact_score is determined by the
\* band of the final score and the matched keywords: the strong, moderate
\* and weak positive templates for >= 5, 2..4 and 1, listing at least one
\* matched positive keyword; the strong, moderate and weak negative ones for
\* <= -5, -4..-2 and -1, listing matched negative keywords; at 0 the mixed
\* template when both polarities matched, a phrase of the pool of five when
\* nothing matched, and the insufficient-material phrase when exactly one
\* polarity matched.
C26_ReasonByBand ==
  pc = "scored" =>
    ReasonOfBand(sc_out[1], sc_out[2], impact(sc_in).matched_positive,
                 impact(sc_in).matched_negative)

\* an item with a positive keyword and no negative one was scored 0 after
\* truncation and got the insufficient-material phrase
C26_Witness ==
  /\ pc = "scored"
  /\ sc_out[1] = 0
  /\ impact(sc_in).matched_positive # << >>
  /\ impact(sc_in).matched_negative = << >>
  /\ sc_out[2] = reason_templates.insufficient

\* ------------------------------------------------------------------------
\* Properties of the pipeline runs (specification SpecPipeline)
\* ------------------------------------------------------------------------
\* C27: in every pipeline run, of main and of generate_dashboard_data, the
\* AlertDetector is created empty and detect_alerts is called before any
\* record is added, so no daily_change and no ma_reversal alert is ever
\* produced by a run; the only alert a run can produce is
\* domestic_foreign_gap.
C27_OnlyGapAlerts ==
  /\ run_pc = "done" =>
       /\ \A i \in 1..Len(run_alerts) : run_alerts[i].type = "domestic_foreign_gap"
       /\ Len(run_detector) = IF run_kind = "main" THEN 1 ELSE 0
  /\ \A p \in Runners :
       run_proc[p].pc # "idle" =>
         \A i \in 1..Len(run_proc[p].batch.alerts) :
           run_proc[p].batch.alerts[i].type = "domestic_foreign_gap"

\* a run of main reported the gap alert, after a run of main whose total
\* score was 3.0 or more away (the scores of the records are in tenths)
C27_Witness ==
  /\ run_pc = "done" /\ run_kind = "main" /\ run_prev # None
  /\ Len(run_prev.detector) = 1
  /\ Abs(run_prev.detector[1].total_score - run_detector[1].total_score)
       >= 10 * ALERT_DAILY_CHANGE
  /\ Len(run_alerts) = 1 /\ run_alerts[1].type = "domestic_foreign_gap"

\* the entries that were recorded when the last run read the log and are
\* dated before today, the day on which the run read the stored run length
EarlierEntries ==
  {i \in 1..Len(run_before) : "date" \in DOMAIN run_before[i] /\ run_before[i]["date"] < run_clock[3]}

\* the entry i of the recorded log has a zero_ratio above 80
RecordedHigh(i) == NumAbove(Get(run_before[i], "zero_ratio", PyInt(0)), 80)

\* the most recent entry dated before today has a zero_ratio above 80
LatestEarlierIsHigh ==
  \E i \in EarlierEntries :
    /\ \A j \in EarlierEntries : run_before[j]["date"] <= run_before[i]["date"]
    /\ RecordedHigh(i)

\* trigger B is among the triggers of the last run
FiredB == \E i \in 1..Len(run_triggers) : run_triggers[i].id = "B"

\* the stored run length: the number of recorded entries dated before today
\* that are above 80 with every later entry dated before today above 80
StoredRunLength ==
  Cardinality({i \in EarlierEntries :
                 \A j \in EarlierEntries :
                   (run_before[j]["date"] >= run_before[i]["date"]) => RecordedHigh(j)})

\* the day count of the last run is the stored run length of the recorded
\* log plus 1 when today's zero_ratio is above 80, and trigger B fired iff
\* today's zero_ratio is above 80 and the most recent recorded entry dated
\* before today has a zero_ratio above 80
DayCountOfRecorded ==
  /\ consecutive_high_zero =
       StoredRunLength + (IF NumAbove(run_stats["zero_ratio"], 80) THEN 1 ELSE 0)
  /\ FiredB <=> (NumAbove(run_stats["zero_ratio"], 80) /\ LatestEarlierIsHigh)

\* C28: the day count a run passes to the trigger evaluator is the stored
\* run length, which excludes today, plus 1 when today's zero_ratio is above
\* 80; so trigger B fires if and only if today's zero_ratio is above 80 and
\* the most recent recorded entry dated before today has a zero_ratio above
\* 80. Today is the day on which the run reads the stored run length.
C28_DayCount == run_pc = "done" => DayCountOfRecorded

\* what holds: the same as long as no run has begun while another one was
\* being made
C28_DayCountInTurn == (run_pc = "done" /\ ~run_overlap) => DayCountOfRecorded

\* the last run and the run before it were made one after the other on one
\* day, with the same statistics, and no run is being made
SameDayRerun ==
  /\ run_pc = "done" /\ run_prev # None /\ ~run_overlap
  /\ \A p \in Runners : run_proc[p].pc = "idle"
  /\ \A i \in 1..Len(run_clock) : run_clock[i] = run_clock[1]
  /\ \A i \in 1..Len(run_prev.clock) : run_prev.clock[i] = run_clock[1]
  /\ run_prev.stats = run_stats

\* C29: running the history step again on the same day with the same
\* statistics is idempotent: the log keeps its number of entries and every
\* entry, and the run gets the same consecutive-high-zero count and the same
\* 7-day comparison as the first run.
C29_RerunIdempotent ==
  SameDayRerun =>
    /\ Readable(run_file) /\ run_file.doc = run_before
    /\ consecutive_high_zero = run_prev.days
    /\ history_comparison = run_prev.comparison

\* what holds: all of it but the day count
C29_RerunKeepsLog ==
  SameDayRerun =>
    /\ Readable(run_file) /\ run_file.doc = run_before
    /\ history_comparison = run_prev.comparison

\* ------------------------------------------------------------------------
\* Properties of overlapping runs (specification SpecConcurrent)
\* ------------------------------------------------------------------------
\* C30: under any interleaving of two overlapping pipeline runs on the same
\* log, every entry dated before today and within the 30-day retention that
\* was in the log before the runs started is still in the persisted log
\* after both have finished.
C30_EarlierEntriesKept ==
  (saved /\ \A p \in Callers : rpc[p] \in {"idle", "done"}) =>
    \A i \in 1..Len(started) :
      (started[i]["date"] < today /\ started[i]["date"] >= today - RETENTION_DAYS) =>
        /\ Readable(file)
        /\ \E j \in 1..Len(file.doc) : file.doc[j] = started[i]

====
